---- MODULE Spec2Model ----
(***************************************************************************)
(* Model of the vendored notifier package (notifier/_notifier.py):         *)
(* Listener, Notifier.register / deregister / deregister_by_uuid /         *)
(* deregister_event / reset / notify / _do_dispatch.                       *)
(*                                                                         *)
(* Spec        one caller; every action is one whole API call.             *)
(* SpecThreads several threads; every action is one atomic step of a call  *)
(*             (a lock operation, one access to the shared _topics dict    *)
(*             or to a listener list, one listener invocation).            *)
(***************************************************************************)
EXTENDS Integers, Sequences, FiniteSets, TLC

VARIABLES
    topics,     \* Notifier._topics: dict event_type -> list of Listener
    uuids,      \* number of uuids generated so far (uuidutils.generate_uuid)
    alive,      \* callback objects that still exist (targets of weakrefs)
    last,       \* Spec: the last finished API call and what it returned
    lock,       \* SpecThreads: Notifier._lock, None or the thread holding it
    frames,     \* SpecThreads: per thread, the call in progress and its locals
    heap,       \* SpecThreads: list objects no longer in _topics that a thread
                \*              still references, by object id
    hist,       \* SpecThreads: history, per thread in notify: the dispatch
                \*              lists of the registry states since the call
    config,     \* the notifier's class and, for a RestrictedNotifier,
                \* _watchable_events and _allow_any
    scope,      \* SpecScoped: the register_deregister context in progress
    notifiers,  \* SpecClone: the notifier objects, each with the identities of
                \*            its _topics dict and of its _lock
    objects     \* SpecClone: the dict, list and lock objects, by identity

\* The variables of SpecRestricted, SpecScoped and SpecClone.
ext == <<config, scope, notifiers, objects>>

vars == <<topics, uuids, alive, last, lock, frames, heap, hist,
          config, scope, notifiers, objects>>

\* ------------------------------------------------------------------ bounds

\* Listeners created in one run of Spec (each takes a fresh uuid).
MaxUuid == 3

\* Listeners created in one run of SpecThreads.
MaxThreadUuid == 2

\* Listeners created in one behaviour of SpecClone.
MaxCloneUuid == 2

\* ------------------------------------------------------------------ values

None == "None"

\* Notifier.ANY, the wildcard event type.
ANY == "*"

\* Event types callers use; listeners are registered for the wildcard and for
\* "a", notifications are also sent for "b", which nobody listens to.
Events == {ANY, "a", "b"}

RegEvents == {ANY, "a"}

\* Callables handed to register. call_me is a module-level function.
\* a.call_me_too and b.call_me_too are bound methods of two objects the caller
\* may drop (then weak references to them are collected); call_me_too raises
\* an Exception when details['color'] is blue.
Callbacks == {"call_me", "a.call_me_too", "b.call_me_too"}

\* SpecThreads also registers reg_me = lambda event_type, details:
\* notifier.register(event_type, call_me), a callback that calls back into
\* the notifier it is registered with.
Reentrant == {"reg_me"}

Collectable == {"a.call_me_too", "b.call_me_too"}

\* The registrations callers make, as
\* <<event_type, callback, details_filter, weak>>. The details filters are
\* is_red = lambda d: d['color'] == 'red' and
\* is_blue = lambda d: d['color'] == 'blue'.
RegArgs ==
    {<<ANY, "call_me", None, FALSE>>,
     <<ANY, "a.call_me_too", None, TRUE>>,
     <<"a", "call_me", "is_red", FALSE>>,
     <<"a", "call_me", "is_blue", FALSE>>,
     <<"a", "a.call_me_too", None, TRUE>>,
     <<"a", "b.call_me_too", None, TRUE>>}

\* The deregistrations callers make, as <<event_type, callback,
\* details_filter>>; callback None stands for a callback that was collected.
DeregArgs ==
    (RegEvents \X {"call_me", "a.call_me_too", "b.call_me_too", None} \X {None})
       \cup {<<"a", "call_me", "is_red">>, <<"a", "call_me", "is_blue">>,
              <<"b", "call_me", None>>}

\* A details payload: None, or a dict given as its set of <<key, value>> items.
PyNone == [none |-> TRUE, items |-> {}]

Dict(items) == [none |-> FALSE, items |-> items]

Details == {PyNone, Dict({}), Dict({<<"color", "red">>}),
            Dict({<<"color", "blue">>})}

\* The notifications callers send, as <<event_type, details>>.
NotifyArgs ==
    ({"a"} \X Details)
       \cup {<<ANY, Dict({})>>, <<"b", Dict({})>>,
              <<"b", Dict({<<"color", "blue">>})>>}

\* "not details": None and the empty dict are falsy
Falsy(details) == details.none \/ details.items = {}

HasKey(d, k) == \E p \in d.items : p[1] = k

\* d[k] of a dict that has the key
DictItem(d, k) == (CHOOSE p \in d.items : p[1] = k)[2]

\* What calling the callback with the payload does: "return" or "raise".
CallbackResult(cb, details) ==
    IF cb \in Collectable /\ HasKey(details, "color")
                         /\ DictItem(details, "color") = "blue"
    THEN "raise"
    ELSE "return"

\* What calling the details filter with the payload does: "truthy", "falsy",
\* or "raise" (d['color'] raises KeyError on a payload without 'color').
FilterResult(f, details) ==
    IF ~HasKey(details, "color") THEN "raise"
    ELSE IF f = "is_red" /\ DictItem(details, "color") = "red" THEN "truthy"
    ELSE IF f = "is_blue" /\ DictItem(details, "color") = "blue" THEN "truthy"
    ELSE "falsy"

\* ---------------------------------------------------------------- Listener

\* The args argument of register: None or a sequence of fixed arguments.
NoArgs == [none |-> TRUE, items |-> <<>>]

Args(items) == [none |-> FALSE, items |-> items]

\* Listener.__init__, lines 78-88: self._args is () or tuple(args),
\* self._kwargs is frozendict() or frozendict(kwargs)
ListenerArgs(uuid, callback, args, kwargs, details_filter, weak) ==
    [uuid |-> uuid, callback |-> callback,
     details_filter |-> details_filter, weak |-> weak,
     args |-> IF args.none \/ args.items = <<>> THEN <<>> ELSE args.items,
     kwargs |-> IF kwargs.none \/ kwargs.items = {} THEN {}
                ELSE kwargs.items]

\* Listener.__init__ (the reference kept is _make_ref(callback, weak)) with
\* args and kwargs left at their default, None
Listener(uuid, callback, details_filter, weak) ==
    ListenerArgs(uuid, callback, NoArgs, PyNone, details_filter, weak)

\* Listener.callback of a reference that is never collected.
ListenerCallback_strong(l, al) == l.callback

\* Listener.callback: a collected weak reference resolves to None
ListenerCallback(l, al) ==
    IF l.weak
    THEN IF l.callback \in al THEN l.callback ELSE None
    ELSE l.callback

\* Listener.dead
ListenerDead(l, al) ==
    IF ~l.weak THEN FALSE
    ELSE IF ListenerCallback(l, al) = None THEN TRUE ELSE FALSE

\* reflection.is_same_callback on plain callables
is_same_callback(c1, c2) == c1 = c2

is_equivalent_callback_only(l, al, callback, details_filter) ==
    ListenerCallback(l, al) = callback

\* Listener.is_equivalent taking a listener that carries fixed arguments as
\* equivalent to nothing.
is_equivalent_plain_only(l, al, callback, details_filter) ==
    /\ l.args = <<>>
    /\ l.kwargs = {}
    /\ ListenerCallback(l, al) = callback
    /\ l.details_filter = details_filter

\* Listener.is_equivalent
is_equivalent(l, al, callback, details_filter) ==
    LET cb == ListenerCallback(l, al) IN
    IF cb = None /\ callback # None THEN FALSE
    ELSE IF cb # None /\ callback = None THEN FALSE
    ELSE IF cb # None /\ callback # None /\ ~is_same_callback(cb, callback)
    THEN FALSE
    ELSE IF details_filter # None
    THEN IF l.details_filter = None THEN FALSE
         ELSE is_same_callback(l.details_filter, details_filter)
    ELSE l.details_filter = None

\* Listener.__call__ without the check of lines 139-141: the collected
\* callback, None, is called and that raises.
ListenerCall_no_dead_check(l, al, details) ==
    LET cb == ListenerCallback(l, al) IN
    IF l.details_filter # None
       /\ FilterResult(l.details_filter, details) = "raise"
    THEN "filter_raised"
    ELSE IF l.details_filter # None
            /\ FilterResult(l.details_filter, details) = "falsy"
    THEN "filtered"
    ELSE IF cb = None THEN "cb_raised"
    ELSE IF CallbackResult(cb, details) = "raise" THEN "cb_raised"
    ELSE "called"

\* Listener.__call__ without the filter of lines 147-150.
ListenerCall_ignore_filter(l, al, details) ==
    LET cb == ListenerCallback(l, al) IN
    IF cb = None THEN "dead"
    ELSE IF CallbackResult(cb, details) = "raise" THEN "cb_raised"
    ELSE "called"

\* Listener.__call__: what one invocation does.
\*   "dead"      weak reference collected, nothing called
\*   "filtered"  the details filter returned a falsy value, callback not called
\*   "called"    callback called and returned
\*   "filter_raised" / "cb_raised"   the exception leaves __call__
ListenerCall(l, al, details) ==
    LET cb == ListenerCallback(l, al) IN
    IF cb = None THEN "dead"
    ELSE IF l.details_filter # None
            /\ FilterResult(l.details_filter, details) = "raise"
    THEN "filter_raised"
    ELSE IF l.details_filter # None
            /\ FilterResult(l.details_filter, details) = "falsy"
    THEN "filtered"
    ELSE IF CallbackResult(cb, details) = "raise" THEN "cb_raised"
    ELSE "called"

Raised(outcome) == outcome \in {"filter_raised", "cb_raised"}

\* ---------------------------------------------------------------- Notifier

\* self._topics.get(event_type, [])
TopicsGet(tp, event_type) ==
    IF event_type \in DOMAIN tp THEN tp[event_type] ELSE <<>>

RECURSIVE SumLen(_, _)
SumLen(tp, keys) ==
    IF keys = {} THEN 0
    ELSE LET event_type == CHOOSE k \in keys : TRUE
         IN  Len(tp[event_type]) + SumLen(tp, keys \ {event_type})

NotifierLen_count_events(tp) == Cardinality(DOMAIN tp)

\* Notifier.__len__
NotifierLen(tp) == SumLen(tp, DOMAIN tp)

\* Notifier.is_registered looking at the first listener of the event only.
is_registered_first_only(tp, al, event_type, callback, details_filter) ==
    /\ Len(TopicsGet(tp, event_type)) > 0
    /\ is_equivalent(TopicsGet(tp, event_type)[1], al, callback, details_filter)

\* Notifier.is_registered
is_registered(tp, al, event_type, callback, details_filter) ==
    \E i \in 1..Len(TopicsGet(tp, event_type)) :
        is_equivalent(TopicsGet(tp, event_type)[i], al, callback, details_filter)

\* Notifier(): the notifier whose can_be_registered accepts every event.
UnrestrictedNotifier ==
    [restricted |-> FALSE, watchable_events |-> {}, allow_any |-> TRUE]

\* RestrictedNotifier.__init__: the frozenset of watchable events and the
\* allow_any flag.
RestrictedNotifier(watchable_events, allow_any) ==
    [restricted |-> TRUE, watchable_events |-> watchable_events,
     allow_any |-> allow_any]

RestrictedCanBeRegistered_not_overridden(cfg, event_type) == TRUE

\* RestrictedNotifier.can_be_registered
RestrictedCanBeRegistered(cfg, event_type) ==
    \/ event_type \in cfg.watchable_events
    \/ (event_type = ANY /\ cfg.allow_any)

\* can_be_registered of a notifier made as cfg says:
\* Notifier.can_be_registered returns True, RestrictedNotifier overrides it.
CanBeRegisteredOn(cfg, event_type) ==
    IF cfg.restricted
    THEN RestrictedCanBeRegistered(cfg, event_type)
    ELSE TRUE

\* self.can_be_registered
can_be_registered(event_type) == CanBeRegisteredOn(config, event_type)

\* RESERVED_KEYS
RESERVED_KEYS == {"details"}

\* The objects of the tests that are not callable: the integer 2 and None.
NotCallable == {"2", None}

\* callable(x)
callable(x) == x \notin NotCallable

ArgumentError_filter_unchecked(event_type, callback, kwargs, details_filter) ==
    IF ~callable(callback) THEN "ValueError"
    ELSE IF ~can_be_registered(event_type) THEN "ValueError"
    ELSE IF ~Falsy(kwargs) /\ \E k \in RESERVED_KEYS : HasKey(kwargs, k)
    THEN "KeyError"
    ELSE None

\* Notifier.register, the checks made before the lock is taken, in the
\* order of the code: the exception raised, None when every check passes.
ArgumentError(event_type, callback, kwargs, details_filter) ==
    IF ~callable(callback) THEN "ValueError"
    ELSE IF details_filter # None /\ ~callable(details_filter)
    THEN "ValueError"
    ELSE IF ~can_be_registered(event_type) THEN "ValueError"
    ELSE IF ~Falsy(kwargs) /\ \E k \in RESERVED_KEYS : HasKey(kwargs, k)
    THEN "KeyError"
    ELSE None

DISALLOWED_NOTIFICATION_EVENTS == {ANY}

\* Notifier.can_trigger_notification without the disallowed events.
can_trigger_notification_always(event_type) == TRUE

\* Notifier.can_trigger_notification
can_trigger_notification(event_type) ==
    IF event_type \in DISALLOWED_NOTIFICATION_EVENTS THEN FALSE ELSE TRUE

\* can_trigger_notification overridden by RestrictedNotifier the way it
\* overrides can_be_registered.
CanTriggerNotificationOn_restricted(cfg, event_type) ==
    IF cfg.restricted
    THEN RestrictedCanBeRegistered(cfg, event_type)
    ELSE event_type \notin DISALLOWED_NOTIFICATION_EVENTS

\* self.can_trigger_notification of a notifier made as cfg says:
\* RestrictedNotifier (lines 490-532) overrides neither it nor notify nor
\* DISALLOWED_NOTIFICATION_EVENTS, so Notifier's is the one called.
CanTriggerNotificationOn(cfg, event_type) ==
    can_trigger_notification(event_type)

\* list.pop(i)
ListPop(s, i) == SubSeq(s, 1, i - 1) \o SubSeq(s, i + 1, Len(s))

\* dict.setdefault(event_type, []) followed by append on the list it returns
SetDefaultAppend(tp, event_type, listener) ==
    IF event_type \in DOMAIN tp
    THEN [tp EXCEPT ![event_type] = Append(@, listener)]
    ELSE tp @@ (event_type :> <<listener>>)

DictPop_everything(tp, event_type) == <<>>

\* dict.pop(event_type, ...): the dict without the key
DictPop(tp, event_type) ==
    [k \in DOMAIN tp \ {event_type} |-> tp[k]]

\* deregister's loop going through the list backwards: the last equivalent
\* listener, 0 if none.
FirstEquivalent_backwards(listeners, al, callback, details_filter) ==
    IF \E i \in 1..Len(listeners) :
            is_equivalent(listeners[i], al, callback, details_filter)
    THEN CHOOSE i \in 1..Len(listeners) :
            /\ is_equivalent(listeners[i], al, callback, details_filter)
            /\ \A j \in (i + 1)..Len(listeners) :
                  ~is_equivalent(listeners[j], al, callback, details_filter)
    ELSE 0

\* The index deregister's loop stops at: the first equivalent listener, 0 if none.
FirstEquivalent(listeners, al, callback, details_filter) ==
    IF \E i \in 1..Len(listeners) :
            is_equivalent(listeners[i], al, callback, details_filter)
    THEN CHOOSE i \in 1..Len(listeners) :
            /\ is_equivalent(listeners[i], al, callback, details_filter)
            /\ \A j \in 1..(i - 1) :
                  ~is_equivalent(listeners[j], al, callback, details_filter)
    ELSE 0

FirstUuid_head(listeners, uuid) == IF Len(listeners) > 0 THEN 1 ELSE 0

\* The index deregister_by_uuid's loop stops at, 0 if none.
FirstUuid(listeners, uuid) ==
    IF \E i \in 1..Len(listeners) : listeners[i].uuid = uuid
    THEN CHOOSE i \in 1..Len(listeners) :
            /\ listeners[i].uuid = uuid
            /\ \A j \in 1..(i - 1) : listeners[j].uuid # uuid
    ELSE 0

\* notify with lines 328 and 329 swapped: the event's listeners first.
DispatchList_event_first(tp, event_type) ==
    TopicsGet(tp, event_type) \o TopicsGet(tp, ANY)

\* The list notify hands to _do_dispatch.
DispatchList(tp, event_type) == TopicsGet(tp, ANY) \o TopicsGet(tp, event_type)

\* Callbacks that change the mapping they are handed: paint_me sets
\* details['color'] = 'blue' (adding or replacing the key), strip_me does
\* details.pop('color', None).
Mutators == {"paint_me", "strip_me"}

\* The mapping a callback leaves behind in the dict it was handed.
CallbackEffect(cb, details) ==
    LET others == {p \in details.items : p[1] # "color"} IN
    IF cb = "paint_me" THEN Dict(others \cup {<<"color", "blue">>})
    ELSE IF cb = "strip_me" THEN Dict(others)
    ELSE details

DetailsCopy_alias(details) == [alias |-> TRUE, dict |-> details]

\* details.copy(), line 294: a new dict with the same items.
DetailsCopy(details) == [alias |-> FALSE, dict |-> details]

\* The dict `details` of _do_dispatch after the listener was invoked with
\* `handed`: what the callback did to the dict it got shows in `details`
\* only if that dict is `details` itself.
DetailsAfter(details, handed, l, al, outcome) ==
    IF handed.alias /\ outcome = "called"
    THEN CallbackEffect(ListenerCallback(l, al), handed.dict)
    ELSE details

\* One turn of _do_dispatch's loop: the log entry of the listener invoked.
Invocation(l, al, details) ==
    [uuid |-> l.uuid, outcome |-> ListenerCall(l, al, details)]

\* _do_dispatch with the try around the loop instead of inside it: the first
\* exception ends the loop.
RECURSIVE DispatchLoop_try_around(_, _, _, _, _, _)
DispatchLoop_try_around(listeners, i, al, details, call_failures, log) ==
    IF i > Len(listeners) \/ call_failures > 0
    THEN [notified |-> <<Len(listeners),
                         Len(listeners) - call_failures,
                         call_failures>>,
          log |-> log, details |-> details]
    ELSE LET handed == DetailsCopy(details)
             inv == Invocation(listeners[i], al, handed.dict)
         IN  DispatchLoop_try_around(
                 listeners, i + 1, al,
                 DetailsAfter(details, handed, listeners[i], al, inv.outcome),
                 IF Raised(inv.outcome) THEN call_failures + 1
                                        ELSE call_failures,
                 Append(log, inv))

\* Notifier._do_dispatch: every listener in turn, exceptions counted.
RECURSIVE DispatchLoop(_, _, _, _, _, _)
DispatchLoop(listeners, i, al, details, call_failures, log) ==
    IF i > Len(listeners)
    THEN [notified |-> <<Len(listeners),
                         Len(listeners) - call_failures,
                         call_failures>>,
          log |-> log, details |-> details]
    ELSE LET handed == DetailsCopy(details)
             inv == Invocation(listeners[i], al, handed.dict)
         IN  DispatchLoop(
                 listeners, i + 1, al,
                 DetailsAfter(details, handed, listeners[i], al, inv.outcome),
                 IF Raised(inv.outcome) THEN call_failures + 1
                                        ELSE call_failures,
                 Append(log, inv))

do_dispatch(listeners, al, details) ==
    DispatchLoop(listeners, 1, al, details, 0, <<>>)

\* -------------------------------------------------- Spec: whole API calls

NoCall == [op |-> "none", exc |-> None, ret |-> None, log |-> <<>>]

\* The call returned value.
Returned(op, value) == [op |-> op, exc |-> None, ret |-> value, log |-> <<>>]

\* The call raised exc.
RaisedError(op, exc) == [op |-> op, exc |-> exc, ret |-> None, log |-> <<>>]

\* register_deregister: no scoped registration is in progress.
NoScope == [pc |-> "none", event |-> None, callback |-> None,
            filter |-> None, before |-> 0, error |-> FALSE]

Init ==
    /\ topics = <<>>
    /\ uuids = 0
    /\ alive = Callbacks
    /\ last = NoCall
    /\ lock = None
    /\ frames = <<>>
    /\ heap = <<>>
    /\ hist = <<>>
    /\ config = UnrestrictedNotifier
    /\ scope = NoScope
    /\ notifiers = <<>>
    /\ objects = <<>>

\* Notifier.register(event_type, callback, args=args, kwargs=kwargs,
\* details_filter=details_filter, weak=weak)
DoRegisterArgs(event_type, callback, args, kwargs, details_filter, weak) ==
    /\ callback \in alive \cup NotCallable
    /\ lock = None
    /\ IF ArgumentError(event_type, callback, kwargs, details_filter) # None
       THEN /\ last' = RaisedError("register",
                   ArgumentError(event_type, callback, kwargs, details_filter))
            /\ UNCHANGED <<topics, uuids>>
       ELSE IF is_registered(topics, alive, event_type, callback, details_filter)
       THEN /\ last' = RaisedError("register", "ValueError")
            /\ UNCHANGED <<topics, uuids>>
       ELSE /\ uuids < MaxUuid
            /\ LET listener == ListenerArgs(uuids + 1, callback, args, kwargs,
                                            details_filter, weak)
               IN  /\ topics' = SetDefaultAppend(topics, event_type, listener)
                   /\ last' = Returned("register", listener)
            /\ uuids' = uuids + 1
    /\ UNCHANGED <<alive, lock, frames, heap, hist>>

\* Notifier.register(event_type, callback, kwargs=kwargs,
\* details_filter=details_filter, weak=weak): args keeps its default, None.
DoRegister(event_type, callback, kwargs, details_filter, weak) ==
    DoRegisterArgs(event_type, callback, NoArgs, kwargs, details_filter, weak)

\* Notifier.register called on the notifier, outside any other call.
register_kwargs(event_type, callback, kwargs, details_filter, weak) ==
    /\ DoRegister(event_type, callback, kwargs, details_filter, weak)
    /\ UNCHANGED ext

\* Notifier.register(event_type, callback, details_filter=details_filter,
\* weak=weak): kwargs keeps its default, None.
register(event_type, callback, details_filter, weak) ==
    register_kwargs(event_type, callback, PyNone, details_filter, weak)

\* Notifier.deregister(event_type, callback,
\* details_filter=details_filter)
DoDeregister(event_type, callback, details_filter) ==
    /\ callback \in alive \cup {None}
    /\ lock = None
    /\ LET listeners == TopicsGet(topics, event_type)
           i == FirstEquivalent(listeners, alive, callback, details_filter)
       IN  IF i # 0
           THEN /\ topics' = [topics EXCEPT ![event_type] = ListPop(@, i)]
                /\ last' = Returned("deregister", TRUE)
           ELSE /\ last' = Returned("deregister", FALSE)
                /\ UNCHANGED topics
    /\ UNCHANGED <<uuids, alive, lock, frames, heap, hist>>

\* Notifier.deregister called on the notifier, outside any other call.
deregister(event_type, callback, details_filter) ==
    /\ DoDeregister(event_type, callback, details_filter)
    /\ UNCHANGED ext

\* Notifier.deregister_by_uuid
deregister_by_uuid(event_type, uuid) ==
    /\ lock = None
    /\ LET listeners == TopicsGet(topics, event_type)
           i == FirstUuid(listeners, uuid)
       IN  IF i # 0
           THEN /\ topics' = [topics EXCEPT ![event_type] = ListPop(@, i)]
                /\ last' = Returned("deregister_by_uuid", TRUE)
           ELSE /\ last' = Returned("deregister_by_uuid", FALSE)
                /\ UNCHANGED topics
    /\ UNCHANGED <<uuids, alive, lock, frames, heap, hist>>
    /\ UNCHANGED ext

\* Notifier.deregister_event
deregister_event(event_type) ==
    /\ topics' = DictPop(topics, event_type)
    /\ last' = Returned("deregister_event", Len(TopicsGet(topics, event_type)))
    /\ UNCHANGED <<uuids, alive, lock, frames, heap, hist>>
    /\ UNCHANGED ext

\* Notifier.reset
reset ==
    /\ topics' = <<>>
    /\ last' = Returned("reset", None)
    /\ UNCHANGED <<uuids, alive, lock, frames, heap, hist>>
    /\ UNCHANGED ext

\* Notifier.notify with the SynchronousExecutor: _do_dispatch has run when
\* notify returns its future.
notify(event_type, details) ==
    /\ IF ~CanTriggerNotificationOn(config, event_type)
       THEN last' = RaisedError("notify", "ValueError")
       ELSE LET listeners == DispatchList(topics, event_type)
                d == IF Falsy(details) THEN Dict({}) ELSE details
                res == do_dispatch(listeners, alive, d)
            IN  last' = [op |-> "notify", exc |-> None,
                         ret |-> res.notified, log |-> res.log]
    /\ UNCHANGED <<topics, uuids, alive, lock, frames, heap, hist>>
    /\ UNCHANGED ext

\* Lists of the registry that keep callback cb alive (a strong reference).
StronglyHeld(tp, cb) ==
    \E e \in DOMAIN tp : \E i \in 1..Len(tp[e]) :
        ~tp[e][i].weak /\ tp[e][i].callback = cb

\* The last outside reference to a callback goes away: weak references to it
\* are collected.
collect(cb) ==
    /\ cb \in alive \cap Collectable
    /\ ~StronglyHeld(topics, cb)
    /\ alive' = alive \ {cb}
    /\ UNCHANGED <<topics, uuids, last, lock, frames, heap, hist>>
    /\ UNCHANGED ext

Next ==
    \/ \E a \in RegArgs : register(a[1], a[2], a[3], a[4])
    \/ \E a \in DeregArgs : deregister(a[1], a[2], a[3])
    \/ \E e \in RegEvents, u \in 1..MaxUuid : deregister_by_uuid(e, u)
    \/ \E e \in Events : deregister_event(e)
    \/ reset
    \/ \E a \in NotifyArgs : notify(a[1], a[2])
    \/ \E cb \in Callbacks : collect(cb)

Spec == Init /\ [][Next]_vars

\* ------------------------------------------ SpecThreads: atomic steps

Threads == {"t1", "t2"}

\* The thread that sends notifications; every thread changes the registry.
NotifyThreads == {"t1"}

\* What the threads register, as <<event_type, callback, details_filter, weak>>:
\* callbacks held strongly, without a details filter.
ThreadRegArgs ==
    {<<ANY, "call_me", None, FALSE>>, <<"a", "call_me", None, FALSE>>,
     <<ANY, "reg_me", None, FALSE>>}

\* What the threads deregister, as <<event_type, callback, details_filter>>.
ThreadDeregArgs == {<<ANY, "call_me", None>>, <<"a", "call_me", None>>}

NoListener == Listener(0, None, None, FALSE)

\* A thread that is in no call.
IdleFrame ==
    [pc |-> "idle", op |-> "none", event |-> None, callback |-> None,
     details_filter |-> None, weak |-> FALSE, uuid |-> 0, details |-> PyNone,
     listener |-> NoListener, ref_kind |-> "none", ref_id |-> 0,
     listeners |-> <<>>, i |-> 0, call_failures |-> 0, log |-> <<>>,
     stack |-> <<>>]

NoHistory == [seen |-> {}, snapshot |-> <<>>]

InitThreads ==
    /\ topics = <<>>
    /\ uuids = 0
    /\ alive = Callbacks \cup Reentrant
    /\ last = NoCall
    /\ lock = None
    /\ frames = [t \in Threads |-> IdleFrame]
    /\ heap = <<>>
    /\ hist = [t \in Threads |-> NoHistory]
    /\ config = UnrestrictedNotifier
    /\ scope = NoScope
    /\ notifiers = <<>>
    /\ objects = <<>>

\* _do_dispatch, lines 293-300, when the callback it called comes back: the
\* loop goes on with the next listener, an exception is a failure.
Resumed(dispatching, raised) ==
    [dispatching EXCEPT
        !.i = @ + 1,
        !.call_failures = IF raised THEN @ + 1 ELSE @,
        !.log = Append(@, [uuid |-> dispatching.listener.uuid,
                           outcome |-> IF raised THEN "cb_raised" ELSE "called"]),
        !.listener = NoListener]

\* The frames once thread t's call is over: its locals are gone; a call made
\* by a callback gives control back to the dispatch loop that called it.
Finished(t, raised) ==
    [frames EXCEPT ![t] = IF frames[t].stack = <<>> THEN IdleFrame
                          ELSE Resumed(frames[t].stack[1], raised)]

\* The list object a local variable `listeners` refers to: a list of _topics
\* or a list that was removed from it.
RefList(fr) ==
    IF fr.ref_kind = "topic" THEN topics[fr.event] ELSE heap[fr.ref_id]

\* An unused object id.
FreshId(h) == CHOOSE n \in 1..(Cardinality(DOMAIN h) + 1) : n \notin DOMAIN h

\* Objects no frame references are garbage.
Referenced(h, frs) ==
    [n \in {m \in DOMAIN h :
              \E t \in Threads : frs[t].ref_kind = "heap" /\ frs[t].ref_id = m}
       |-> h[n]]

\* The frames after the lists of the event types `gone` left _topics: a local
\* that refers to such a list now refers to the removed object `id`.
Detached(frs, gone, id) ==
    [t \in Threads |->
        IF frs[t].ref_kind = "topic" /\ frs[t].event \in gone
        THEN [frs[t] EXCEPT !.ref_kind = "heap", !.ref_id = id]
        ELSE frs[t]]

\* Whether some frame's local refers to the list of one of the events `gone`.
Aliased(frs, gone) ==
    \E t \in Threads : frs[t].ref_kind = "topic" /\ frs[t].event \in gone

\* Entering the block without waiting for the lock to be free.
Acquire_no_wait(t) == lock' = t

\* with self._lock: entering blocks until the lock is free
Acquire(t) == lock = None /\ lock' = t

\* Calls of register that have not yet made their Listener.
Registering == {t \in Threads : frames[t].pc \in {"reg_lock", "reg_check"}}

\* register, lines 363-375: argument checks, before the lock is requested
register_call(t, event_type, callback, details_filter, weak) ==
    /\ frames[t].pc = "idle"
    /\ callback \in alive
    /\ uuids + Cardinality(Registering) < MaxThreadUuid
    /\ IF ~can_be_registered(event_type)
       THEN frames' = Finished(t, TRUE)
       ELSE frames' = [frames EXCEPT ![t] =
                [IdleFrame EXCEPT !.pc = "reg_lock", !.op = "register",
                                  !.event = event_type, !.callback = callback,
                                  !.details_filter = details_filter,
                                  !.weak = weak]]
    /\ UNCHANGED <<topics, uuids, alive, last, lock, heap>>
    /\ UNCHANGED ext

\* register, line 376
register_acquire(t) ==
    /\ frames[t].pc = "reg_lock"
    /\ Acquire(t)
    /\ frames' = [frames EXCEPT ![t].pc = "reg_check"]
    /\ UNCHANGED <<topics, uuids, alive, last, heap>>
    /\ UNCHANGED ext

\* register, lines 377-384: the duplicate check, then the new Listener
register_check(t) ==
    /\ frames[t].pc = "reg_check"
    /\ LET fr == frames[t] IN
       IF is_registered(topics, alive, fr.event, fr.callback, fr.details_filter)
       THEN /\ frames' = Finished(t, TRUE)
            /\ lock' = None
            /\ UNCHANGED uuids
       ELSE /\ frames' = [frames EXCEPT ![t] =
                   [fr EXCEPT !.pc = "reg_setdefault",
                              !.listener = Listener(uuids + 1, fr.callback,
                                                    fr.details_filter, fr.weak)]]
            /\ uuids' = uuids + 1
            /\ UNCHANGED lock
    /\ UNCHANGED <<topics, alive, last, heap>>
    /\ UNCHANGED ext

\* register, line 385: listeners = self._topics.setdefault(event_type, [])
register_setdefault(t) ==
    /\ frames[t].pc = "reg_setdefault"
    /\ LET fr == frames[t] IN
       /\ topics' = IF fr.event \in DOMAIN topics THEN topics
                    ELSE topics @@ (fr.event :> <<>>)
       /\ frames' = [frames EXCEPT ![t] =
              [fr EXCEPT !.pc = "reg_append", !.ref_kind = "topic"]]
    /\ UNCHANGED <<uuids, alive, last, lock, heap>>
    /\ UNCHANGED ext

\* register, lines 386-387: listeners.append(listener); return listener
register_append(t) ==
    /\ frames[t].pc = "reg_append"
    /\ LET fr == frames[t] IN
       /\ IF fr.ref_kind = "topic"
          THEN /\ topics' = [topics EXCEPT ![fr.event] = Append(@, fr.listener)]
               /\ heap' = Referenced(heap, Finished(t, FALSE))
          ELSE /\ heap' = Referenced(
                    [heap EXCEPT ![fr.ref_id] = Append(@, fr.listener)],
                    Finished(t, FALSE))
               /\ UNCHANGED topics
    /\ frames' = Finished(t, FALSE)
    /\ lock' = None
    /\ UNCHANGED <<uuids, alive, last>>
    /\ UNCHANGED ext

\* deregister, before the lock is requested
deregister_call(t, event_type, callback, details_filter) ==
    /\ frames[t].pc = "idle"
    /\ callback \in alive \cup {None}
    /\ frames' = [frames EXCEPT ![t] =
           [IdleFrame EXCEPT !.pc = "dereg_lock", !.op = "deregister",
                             !.event = event_type, !.callback = callback,
                             !.details_filter = details_filter]]
    /\ UNCHANGED <<topics, uuids, alive, last, lock, heap>>
    /\ UNCHANGED ext

\* deregister_by_uuid, before the lock is requested
deregister_by_uuid_call(t, event_type, uuid) ==
    /\ frames[t].pc = "idle"
    /\ frames' = [frames EXCEPT ![t] =
           [IdleFrame EXCEPT !.pc = "dereg_lock", !.op = "deregister_by_uuid",
                             !.event = event_type, !.uuid = uuid]]
    /\ UNCHANGED <<topics, uuids, alive, last, lock, heap>>
    /\ UNCHANGED ext

\* deregister, line 400; deregister_by_uuid, line 418
deregister_acquire(t) ==
    /\ frames[t].pc = "dereg_lock"
    /\ Acquire(t)
    /\ frames' = [frames EXCEPT ![t].pc = "dereg_get"]
    /\ UNCHANGED <<topics, uuids, alive, last, heap>>
    /\ UNCHANGED ext

\* deregister, line 401; deregister_by_uuid, line 419:
\* listeners = self._topics.get(event_type, [])
deregister_get(t) ==
    /\ frames[t].pc = "dereg_get"
    /\ LET fr == frames[t] IN
       IF fr.event \in DOMAIN topics
       THEN /\ frames' = [frames EXCEPT ![t] =
                   [fr EXCEPT !.pc = "dereg_scan", !.ref_kind = "topic"]]
            /\ UNCHANGED heap
       ELSE LET id == FreshId(heap) IN
            /\ frames' = [frames EXCEPT ![t] =
                   [fr EXCEPT !.pc = "dereg_scan", !.ref_kind = "heap",
                              !.ref_id = id]]
            /\ heap' = heap @@ (id :> <<>>)
    /\ UNCHANGED <<topics, uuids, alive, last, lock>>
    /\ UNCHANGED ext

\* deregister, lines 402-407; deregister_by_uuid, lines 420-424: the loop over
\* the list (only lock holders change a list), pop, return
deregister_scan(t) ==
    /\ frames[t].pc = "dereg_scan"
    /\ LET fr == frames[t]
           listeners == RefList(fr)
           i == IF fr.op = "deregister"
                THEN FirstEquivalent(listeners, alive, fr.callback,
                                     fr.details_filter)
                ELSE FirstUuid(listeners, fr.uuid)
       IN  /\ IF i # 0 /\ fr.ref_kind = "topic"
              THEN /\ topics' = [topics EXCEPT ![fr.event] = ListPop(@, i)]
                   /\ heap' = Referenced(heap, Finished(t, FALSE))
              ELSE IF i # 0
              THEN /\ heap' = Referenced(
                        [heap EXCEPT ![fr.ref_id] = ListPop(@, i)],
                        Finished(t, FALSE))
                   /\ UNCHANGED topics
              ELSE /\ heap' = Referenced(heap, Finished(t, FALSE))
                   /\ UNCHANGED topics
    /\ frames' = Finished(t, FALSE)
    /\ lock' = None
    /\ UNCHANGED <<uuids, alive, last>>
    /\ UNCHANGED ext

\* deregister_event, line 434: self._topics.pop(event_type, []); no lock
deregister_event_pop(t, event_type) ==
    /\ frames[t].pc = "idle"
    /\ LET id == FreshId(heap)
           fr == [IdleFrame EXCEPT !.pc = "event_len", !.op = "deregister_event",
                                   !.event = event_type, !.ref_kind = "heap",
                                   !.ref_id = id]
       IN  /\ heap' = heap @@ (id :> TopicsGet(topics, event_type))
           /\ frames' = [Detached(frames, {event_type}, id) EXCEPT ![t] = fr]
    /\ topics' = DictPop(topics, event_type)
    /\ UNCHANGED <<uuids, alive, last, lock>>
    /\ UNCHANGED ext

\* deregister_event, line 434: return len(...) of the popped list
deregister_event_len(t) ==
    /\ frames[t].pc = "event_len"
    /\ frames' = Finished(t, FALSE)
    /\ heap' = Referenced(heap, Finished(t, FALSE))
    /\ UNCHANGED <<topics, uuids, alive, last, lock>>
    /\ UNCHANGED ext

\* reset, line 286: self._topics.clear(); no lock
reset_clear(t) ==
    /\ frames[t].pc = "idle"
    /\ LET id == FreshId(heap)
           gone == DOMAIN topics
           holder == CHOOSE u \in Threads :
                        frames[u].ref_kind = "topic" /\ frames[u].event \in gone
       IN  /\ frames' = Detached(frames, gone, id)
           /\ heap' = IF Aliased(frames, gone)
                      THEN heap @@ (id :> topics[frames[holder].event])
                      ELSE heap
    /\ topics' = <<>>
    /\ UNCHANGED <<uuids, alive, last, lock>>
    /\ UNCHANGED ext

\* notify taking the notifier's lock, when it is free, and keeping it for
\* the dispatch.
NotifyLock_taken(t) == IF lock = None THEN t ELSE lock

\* notify, lines 325-333: no `with self._lock`; the lock stays as it is.
NotifyLock(t) == lock

\* notify, lines 325-327
notify_call(t, event_type, details) ==
    /\ frames[t].pc = "idle"
    /\ IF ~can_trigger_notification(event_type)
       THEN frames' = Finished(t, TRUE) /\ UNCHANGED lock
       ELSE /\ frames' = [frames EXCEPT ![t] =
                   [IdleFrame EXCEPT !.pc = "notify_any", !.op = "notify",
                                     !.event = event_type,
                                     !.details = details]]
            /\ lock' = NotifyLock(t)
    /\ UNCHANGED <<topics, uuids, alive, last, heap>>
    /\ UNCHANGED ext

\* notify, line 328: listeners = list(self._topics.get(self.ANY, []))
notify_any(t) ==
    /\ frames[t].pc = "notify_any"
    /\ frames' = [frames EXCEPT ![t].pc = "notify_extend",
                                ![t].listeners = TopicsGet(topics, ANY)]
    /\ UNCHANGED <<topics, uuids, alive, last, lock, heap>>
    /\ UNCHANGED ext

\* notify, lines 329-333: listeners.extend(self._topics.get(event_type, [])),
\* the default details, and the executor starts _do_dispatch at once
notify_extend(t) ==
    /\ frames[t].pc = "notify_extend"
    /\ LET fr == frames[t] IN
       frames' = [frames EXCEPT ![t] =
           [fr EXCEPT !.pc = "dispatch",
                      !.listeners = fr.listeners \o TopicsGet(topics, fr.event),
                      !.details = IF Falsy(fr.details) THEN Dict({})
                                  ELSE fr.details,
                      !.i = 1,
                      !.call_failures = 0]]
    /\ UNCHANGED <<topics, uuids, alive, last, lock, heap>>
    /\ UNCHANGED ext

\* _do_dispatch iterating over the registry's lists instead of the list
\* notify built.
DispatchListeners_live(t) == DispatchList(topics, frames[t].event)

\* The list _do_dispatch iterates over: the one notify built.
DispatchListeners(t) == frames[t].listeners

\* _do_dispatch, lines 292-300: one turn of the loop
dispatch_listener(t) ==
    /\ frames[t].pc = "dispatch"
    /\ frames[t].i <= Len(DispatchListeners(t))
    /\ LET fr == frames[t]
           listener == DispatchListeners(t)[fr.i]
           inv == Invocation(listener, alive, fr.details)
       IN  /\ ~(inv.outcome = "called" /\ listener.callback \in Reentrant)
           /\ frames' = [frames EXCEPT ![t] =
                  [fr EXCEPT !.i = fr.i + 1,
                             !.call_failures = IF Raised(inv.outcome)
                                               THEN fr.call_failures + 1
                                               ELSE fr.call_failures,
                             !.log = Append(fr.log, inv)]]
    /\ UNCHANGED <<topics, uuids, alive, last, lock, heap>>
    /\ UNCHANGED ext

\* _do_dispatch, line 294, for reg_me: the callback calls
\* notifier.register(event_type, call_me) on the thread of the dispatch
dispatch_reentrant(t) ==
    /\ frames[t].pc = "dispatch"
    /\ frames[t].i <= Len(DispatchListeners(t))
    /\ uuids + Cardinality(Registering) < MaxThreadUuid
    /\ LET fr == frames[t]
           listener == DispatchListeners(t)[fr.i]
           inv == Invocation(listener, alive, fr.details)
       IN  /\ inv.outcome = "called" /\ listener.callback \in Reentrant
           /\ frames' = [frames EXCEPT ![t] =
                  [IdleFrame EXCEPT !.pc = "reg_lock", !.op = "register",
                                    !.event = fr.event, !.callback = "call_me",
                                    !.stack =
                                        <<[fr EXCEPT !.listener = listener]>>]]
    /\ UNCHANGED <<topics, uuids, alive, last, lock, heap>>
    /\ UNCHANGED ext

\* _do_dispatch, lines 301-303: the result once the loop is over
Notified(fr) ==
    <<Len(fr.listeners), Len(fr.listeners) - fr.call_failures, fr.call_failures>>

\* _do_dispatch giving up at the first listener that raised.
LoopOver_on_failure(t) ==
    \/ frames[t].i > Len(DispatchListeners(t))
    \/ frames[t].call_failures > 0

\* _do_dispatch, line 292: the for loop ends when the list is exhausted; the
\* try inside the loop keeps an exception from ending it sooner.
LoopOver(t) == frames[t].i > Len(DispatchListeners(t))

\* _do_dispatch, lines 301-303: the loop is over, Notified(frames[t]) is
\* the future's result
dispatch_return(t) ==
    /\ frames[t].pc = "dispatch"
    /\ LoopOver(t)
    /\ frames' = Finished(t, FALSE)
    /\ UNCHANGED <<topics, uuids, alive, last, lock, heap>>
    /\ UNCHANGED ext

\* History. seen: from the call of notify until the first turn of the
\* dispatch loop, the dispatch list of every registry state gone through.
\* snapshot: during the dispatch, the list the dispatch started with.
History(t) ==
    LET fr == frames'[t] IN
    IF fr.stack # <<>> THEN hist[t]
    ELSE IF fr.pc \in {"notify_any", "notify_extend"}
    THEN [seen |-> (IF frames[t].pc = "idle" THEN {} ELSE hist[t].seen)
                      \cup {DispatchList(topics', fr.event)},
          snapshot |-> <<>>]
    ELSE IF fr.pc = "dispatch" /\ frames[t].pc = "notify_extend"
    THEN [seen |-> hist[t].seen, snapshot |-> fr.listeners]
    ELSE IF fr.pc = "dispatch"
    THEN [seen |-> {}, snapshot |-> hist[t].snapshot]
    ELSE NoHistory

\* The history variable follows every step.
Recorded == hist' = [t \in Threads |-> History(t)]

NextThreads ==
    \/ \E t \in Threads, a \in ThreadRegArgs :
          register_call(t, a[1], a[2], a[3], a[4]) /\ Recorded
    \/ \E t \in Threads : register_acquire(t) /\ Recorded
    \/ \E t \in Threads : register_check(t) /\ Recorded
    \/ \E t \in Threads : register_setdefault(t) /\ Recorded
    \/ \E t \in Threads : register_append(t) /\ Recorded
    \/ \E t \in Threads, a \in ThreadDeregArgs :
          deregister_call(t, a[1], a[2], a[3]) /\ Recorded
    \/ \E t \in Threads, e \in RegEvents, u \in 1..uuids :
          deregister_by_uuid_call(t, e, u) /\ Recorded
    \/ \E t \in Threads : deregister_acquire(t) /\ Recorded
    \/ \E t \in Threads : deregister_get(t) /\ Recorded
    \/ \E t \in Threads : deregister_scan(t) /\ Recorded
    \/ \E t \in Threads, e \in RegEvents :
          deregister_event_pop(t, e) /\ Recorded
    \/ \E t \in Threads : deregister_event_len(t) /\ Recorded
    \/ \E t \in Threads : reset_clear(t) /\ Recorded
    \/ \E t \in NotifyThreads, e \in {ANY, "a"} :
          notify_call(t, e, Dict({})) /\ Recorded
    \/ \E t \in Threads : notify_any(t) /\ Recorded
    \/ \E t \in Threads : notify_extend(t) /\ Recorded
    \/ \E t \in Threads : dispatch_listener(t) /\ Recorded
    \/ \E t \in Threads : dispatch_reentrant(t) /\ Recorded
    \/ \E t \in Threads : dispatch_return(t) /\ Recorded

SpecThreads == InitThreads /\ [][NextThreads]_vars

\* register, deregister, deregister_by_uuid: `with self._lock` entered.
AcquireSteps(t) ==
    \/ register_acquire(t) /\ Recorded
    \/ deregister_acquire(t) /\ Recorded

\* register, deregister, deregister_by_uuid: the body of `with self._lock`,
\* which ends with the lock released.
SectionSteps(t) ==
    \/ register_check(t) /\ Recorded
    \/ register_setdefault(t) /\ Recorded
    \/ register_append(t) /\ Recorded
    \/ deregister_get(t) /\ Recorded
    \/ deregister_scan(t) /\ Recorded

\* ------------------------------------------------ calls during a dispatch
\* Thread t1 sends notifications, whose callbacks may call register; thread
\* t2 registers and deregisters meanwhile.

\* What thread t2 deregisters, as <<event_type, callback, details_filter>>.
LockDeregArgs == {<<"a", "call_me", None>>}

NextLock ==
    \/ \E t \in Threads \ NotifyThreads, a \in ThreadRegArgs :
          register_call(t, a[1], a[2], a[3], a[4]) /\ Recorded
    \/ \E t \in Threads \ NotifyThreads, a \in LockDeregArgs :
          deregister_call(t, a[1], a[2], a[3]) /\ Recorded
    \/ \E t \in Threads \ NotifyThreads, u \in 1..uuids :
          deregister_by_uuid_call(t, ANY, u) /\ Recorded
    \/ \E t \in NotifyThreads : notify_call(t, "a", Dict({})) /\ Recorded
    \/ \E t \in Threads : AcquireSteps(t)
    \/ \E t \in Threads : SectionSteps(t)
    \/ \E t \in Threads : notify_any(t) /\ Recorded
    \/ \E t \in Threads : notify_extend(t) /\ Recorded
    \/ \E t \in Threads : dispatch_listener(t) /\ Recorded
    \/ \E t \in Threads : dispatch_reentrant(t) /\ Recorded
    \/ \E t \in Threads : dispatch_return(t) /\ Recorded

SpecLock == InitThreads /\ [][NextLock]_vars

\* The thread inside `with self._lock` runs on to the end of the block, and
\* a thread waiting for a lock that is released again and again gets it.
\* Nothing is assumed about a dispatch: a callback may never return.
SpecLockFair ==
    SpecLock /\ \A t \in Threads : /\ WF_vars(SectionSteps(t))
                                   /\ SF_vars(AcquireSteps(t))

\* ------------------------------------------------- notifications in flight
\* Notifications whose listeners return or raise, sent while another thread
\* registers and removes listeners; no callback calls back into the notifier.

\* What the threads register, as <<event_type, callback, details_filter, weak>>.
DispatchRegArgs ==
    {<<ANY, "call_me", None, FALSE>>, <<"a", "a.call_me_too", None, FALSE>>,
     <<"a", "call_me", "is_red", FALSE>>}

\* The notifications thread t1 sends, as <<event_type, details>>.
DispatchNotifyArgs ==
    {<<"a", Dict({})>>, <<"a", Dict({<<"color", "blue">>})>>,
     <<"b", PyNone>>, <<ANY, Dict({})>>}

InitDispatch ==
    /\ topics = <<>>
    /\ uuids = 0
    /\ alive = Callbacks
    /\ last = NoCall
    /\ lock = None
    /\ frames = [t \in Threads |-> IdleFrame]
    /\ heap = <<>>
    /\ hist = [t \in Threads |-> NoHistory]
    /\ config = UnrestrictedNotifier
    /\ scope = NoScope
    /\ notifiers = <<>>
    /\ objects = <<>>

\* The steps of notify and of the _do_dispatch it starts on thread t.
NotifySteps(t) ==
    \/ notify_any(t) /\ Recorded
    \/ notify_extend(t) /\ Recorded
    \/ dispatch_listener(t) /\ Recorded
    \/ dispatch_return(t) /\ Recorded

NextDispatch ==
    \/ \E t \in Threads, a \in DispatchRegArgs :
          register_call(t, a[1], a[2], a[3], a[4]) /\ Recorded
    \/ \E t \in Threads : register_acquire(t) /\ Recorded
    \/ \E t \in Threads : register_check(t) /\ Recorded
    \/ \E t \in Threads : register_setdefault(t) /\ Recorded
    \/ \E t \in Threads : register_append(t) /\ Recorded
    \/ \E t \in Threads \ NotifyThreads, e \in RegEvents :
          deregister_event_pop(t, e) /\ Recorded
    \/ \E t \in Threads : deregister_event_len(t) /\ Recorded
    \/ \E t \in NotifyThreads, a \in DispatchNotifyArgs :
          notify_call(t, a[1], a[2]) /\ Recorded
    \/ \E t \in Threads : NotifySteps(t)

SpecDispatch == InitDispatch /\ [][NextDispatch]_vars

\* The synchronous executor runs _do_dispatch on the calling thread, and a
\* thread that can run is scheduled: the steps of notify wait for no lock.
SpecDispatchFair ==
    SpecDispatch /\ \A t \in NotifyThreads : WF_vars(NotifySteps(t))

\* ------------------------------------------- listeners with fixed arguments
\* Registrations of the same callback that differ in the fixed arguments and
\* in the kind of reference, and deregistrations, which name neither.

\* Notifier.register called on the notifier with all of its arguments.
register_args(event_type, callback, args, kwargs, details_filter, weak) ==
    /\ DoRegisterArgs(event_type, callback, args, kwargs, details_filter, weak)
    /\ UNCHANGED ext

\* The registrations callers make, as <<event_type, callback, args, kwargs,
\* details_filter, weak>>.
EquivRegArgs ==
    {<<"a", "call_me", NoArgs, PyNone, None, FALSE>>,
     <<"a", "call_me", Args(<<"x">>), PyNone, None, FALSE>>,
     <<"a", "call_me", NoArgs, Dict({<<"k", "v">>}), None, FALSE>>,
     <<"a", "call_me", NoArgs, PyNone, None, TRUE>>,
     <<"a", "call_me", Args(<<"x">>), PyNone, "is_red", FALSE>>,
     <<"a", "call_me", NoArgs, Dict({<<"k", "v">>}), "is_red", TRUE>>,
     <<"a", "a.call_me_too", Args(<<"x">>), PyNone, None, TRUE>>,
     <<ANY, "call_me", Args(<<"x">>), Dict({<<"k", "v">>}), None, FALSE>>}

\* The deregistrations callers make, as <<event_type, callback,
\* details_filter>>.
EquivDeregArgs ==
    {<<"a", "call_me", None>>, <<"a", "call_me", "is_red">>,
     <<"a", "a.call_me_too", None>>, <<ANY, "call_me", None>>}

\* The registration repeats one that is in place, fixed arguments and kind
\* of reference included.
Repeats(a) ==
    \E i \in 1..Len(TopicsGet(topics, a[1])) :
       topics[a[1]][i] =
           ListenerArgs(topics[a[1]][i].uuid, a[2], a[3], a[4], a[5], a[6])

\* Callers register a callback again only with other fixed arguments or
\* another kind of reference.
NextEquivalence ==
    \/ \E a \in EquivRegArgs :
          ~Repeats(a) /\ register_args(a[1], a[2], a[3], a[4], a[5], a[6])
    \/ \E a \in EquivDeregArgs : deregister(a[1], a[2], a[3])
    \/ \E e \in {"a"}, u \in 1..MaxUuid : deregister_by_uuid(e, u)

SpecEquivalence == Init /\ [][NextEquivalence]_vars

\* ------------------------------------------------------------------ claims

\* Whether the callback of a weakly held listener was collected.
IsDead(l) == l.weak /\ l.callback \notin alive

\* "Equivalent to (cb, f)": the same resolved callback and the same details
\* filter. cb = None stands for a collected callback.
EquivalentTo(l, cb, f) ==
    /\ (IF IsDead(l) THEN None ELSE l.callback) = cb
    /\ l.details_filter = f

\* The positions of the listeners equivalent to (cb, f) in a listener sequence.
EquivalentAt(listeners, cb, f) ==
    {i \in 1..Len(listeners) : EquivalentTo(listeners[i], cb, f)}

\* The payload the listeners get: notify replaces a falsy one by {}.
Payload(details) == IF details.none \/ details.items = {} THEN Dict({})
                    ELSE details

\* What the listener's filter says about the payload; no filter lets
\* everything through.
FilterSays(l, details) ==
    IF l.details_filter = None THEN "truthy"
    ELSE FilterResult(l.details_filter, details)

\* Whether invoking the listener with the payload raises.
Raises(l, details) ==
    /\ ~IsDead(l)
    /\ \/ FilterSays(l, details) = "raise"
       \/ /\ FilterSays(l, details) = "truthy"
          /\ CallbackResult(l.callback, details) = "raise"

\* Log entries of invocations that called the listener's callback.
Fired(entry) == entry.outcome \in {"called", "cb_raised"}

\* Log entries of invocations that raised.
Failed(entry) == entry.outcome \in {"filter_raised", "cb_raised"}

\* The step is a notify call that was accepted.
Accepted(a) ==
    /\ a[1] # ANY
    /\ last'.op = "notify"
    /\ notify(a[1], a[2])

\* C1: register(E, cb, f) while E's sequence holds a listener equivalent to
\* (cb, f) fails with ValueError and leaves every event's sequence and
\* len(notifier) as they were.
C1_DuplicateRejected ==
    [][\A a \in RegArgs :
          (/\ last'.op = "register"
           /\ register(a[1], a[2], a[3], a[4])
           /\ EquivalentAt(TopicsGet(topics, a[1]), a[2], a[3]) # {})
          => /\ last'.exc = "ValueError"
             /\ topics' = topics
             /\ NotifierLen(topics') = NotifierLen(topics)]_vars

\* A duplicate registration was rejected while the event held two listeners,
\* the equivalent one not the first.
C1_Witness ==
    /\ last.op = "register"
    /\ last.exc = "ValueError"
    /\ \E e \in DOMAIN topics, a \in RegArgs :
          /\ a[1] = e
          /\ Len(topics[e]) >= 2
          /\ a[2] \in alive
          /\ EquivalentAt(topics[e], a[2], a[3]) # {}
          /\ 1 \notin EquivalentAt(topics[e], a[2], a[3])

\* C2: notify(E, details) invokes every wildcard listener in registration
\* order, then every listener of E in registration order, and no listener of
\* another event.
C2_DispatchOrder ==
    [][\A a \in NotifyArgs :
          Accepted(a)
          => LET e == a[1]
                 d == a[2]
                 wild == TopicsGet(topics, ANY)
                 own == TopicsGet(topics, e)
                 log == last'.log
             IN  /\ Len(log) = Len(wild) + Len(own)
                 /\ \A i \in 1..Len(wild) : log[i].uuid = wild[i].uuid
                 /\ \A i \in 1..Len(own) :
                       log[Len(wild) + i].uuid = own[i].uuid
                 /\ \A i, j \in 1..Len(wild) :
                       i < j => log[i].uuid < log[j].uuid
                 /\ \A i, j \in (Len(wild) + 1)..Len(log) :
                       i < j => log[i].uuid < log[j].uuid
                 /\ \A o \in DOMAIN topics \ {ANY, e} :
                       \A k \in 1..Len(topics[o]), i \in 1..Len(log) :
                          log[i].uuid # topics[o][k].uuid]_vars

\* A notification went to a wildcard listener and then to two listeners of
\* "a", the wildcard listener being the one registered last.
C2_Witness ==
    /\ last.op = "notify"
    /\ last.exc = None
    /\ Len(TopicsGet(topics, ANY)) = 1
    /\ Len(TopicsGet(topics, "a")) = 2
    /\ Len(last.log) = 3
    /\ topics[ANY][1].uuid > topics["a"][2].uuid
    /\ last.log[1].uuid = topics[ANY][1].uuid

\* C3: a listener that raises does not make notify raise and does not stop
\* the dispatch: the listeners after it are invoked in order, it is counted in
\* failures, and total is the length of the dispatch list.
C3_RaiseDoesNotStop ==
    [][\A a \in NotifyArgs :
          Accepted(a)
          => LET e == a[1]
                 d == a[2]
                 listeners == TopicsGet(topics, ANY) \o TopicsGet(topics, e)
                 log == last'.log
                 raising == {i \in 1..Len(listeners) :
                                Raises(listeners[i], Payload(d))}
             IN  /\ last'.exc = None
                 /\ last'.ret[1] = Len(listeners)
                 /\ \A i \in raising :
                       /\ i <= Len(log)
                       /\ Failed(log[i])
                       /\ last'.ret[3] >= 1
                       /\ \A j \in (i + 1)..Len(listeners) :
                             /\ j <= Len(log)
                             /\ log[j].uuid = listeners[j].uuid]_vars

\* A notification whose first listener raised and whose next listener was
\* called.
C3_Witness ==
    /\ last.op = "notify"
    /\ last.exc = None
    /\ Len(last.log) >= 2
    /\ Failed(last.log[1])
    /\ last.log[2].outcome = "called"
    /\ last.ret[3] >= 1

\* C4: the result of an accepted notify is total = successes + failures, total
\* the length of the dispatch list, failures the number of listeners whose
\* invocation raised; a dead or filtered listener counts as a success.
C4_Counts ==
    [][\A a \in NotifyArgs :
          Accepted(a)
          => LET e == a[1]
                 d == a[2]
                 listeners == TopicsGet(topics, ANY) \o TopicsGet(topics, e)
                 raising == {i \in 1..Len(listeners) :
                                Raises(listeners[i], Payload(d))}
                 skipped == {i \in 1..Len(listeners) :
                                \/ IsDead(listeners[i])
                                \/ FilterSays(listeners[i], Payload(d)) = "falsy"}
                 total == last'.ret[1]
                 successes == last'.ret[2]
                 failures == last'.ret[3]
             IN  /\ total = successes + failures
                 /\ total = Len(listeners)
                 /\ failures = Cardinality(raising)
                 /\ skipped \cap raising = {}
                 /\ successes >= Cardinality(skipped)]_vars

\* A notification with a failure, a dead listener and a success.
C4_Witness ==
    /\ last.op = "notify"
    /\ last.exc = None
    /\ last.ret[3] = 1
    /\ last.ret[2] = 2
    /\ \E i \in 1..Len(last.log) : last.log[i].outcome = "dead"

\* C5: notify(ANY, details) fails with ValueError, invokes no listener and
\* leaves the registry unchanged; registering for ANY is permitted.
C5_WildcardTrigger ==
    [][/\ \A a \in NotifyArgs :
             (a[1] = ANY /\ last'.op = "notify" /\ notify(a[1], a[2]))
             => /\ last'.exc = "ValueError"
                /\ last'.log = <<>>
                /\ topics' = topics
       /\ \A a \in RegArgs :
             (/\ a[1] = ANY
              /\ last'.op = "register"
              /\ register(a[1], a[2], a[3], a[4])
              /\ EquivalentAt(TopicsGet(topics, ANY), a[2], a[3]) = {})
             => /\ last'.exc = None
                /\ Len(TopicsGet(topics', ANY)) = Len(TopicsGet(topics, ANY)) + 1
                /\ EquivalentAt(TopicsGet(topics', ANY), a[2], a[3]) # {}]_vars

\* notify(ANY, ...) was rejected while a wildcard listener was registered.
C5_Witness ==
    /\ last.op = "notify"
    /\ last.exc = "ValueError"
    /\ Len(TopicsGet(topics, ANY)) >= 1

\* C9: deregister(E, cb, f) removes the first listener of E's sequence
\* equivalent to (cb, f) and returns true, the other listeners of E keep their
\* order and every other event its sequence; with no equivalent listener under
\* E it returns false and changes nothing.
C9_DeregisterFirst ==
    [][\A a \in DeregArgs :
          (last'.op = "deregister" /\ deregister(a[1], a[2], a[3]))
          => LET e == a[1]
                 listeners == TopicsGet(topics, e)
                 eq == EquivalentAt(listeners, a[2], a[3])
             IN  IF eq # {}
                 THEN LET first == CHOOSE i \in eq : \A j \in eq : i <= j IN
                      /\ last'.ret = TRUE
                      /\ DOMAIN topics' = DOMAIN topics
                      /\ Len(topics'[e]) = Len(listeners) - 1
                      /\ \A i \in 1..(first - 1) : topics'[e][i] = listeners[i]
                      /\ \A i \in first..(Len(listeners) - 1) :
                            topics'[e][i] = listeners[i + 1]
                      /\ \A o \in DOMAIN topics \ {e} : topics'[o] = topics[o]
                 ELSE /\ last'.ret = FALSE
                      /\ topics' = topics]_vars

\* deregister removed one of two dead listeners of "a": the one that is left
\* is the one registered later.
C9_Witness ==
    /\ last.op = "deregister"
    /\ last.ret = TRUE
    /\ alive \cap Collectable = {}
    /\ Len(TopicsGet(topics, "a")) = 1
    /\ IsDead(topics["a"][1])
    /\ topics["a"][1].uuid = 2
    /\ uuids = 2

\* C10: a live listener with a details filter has its callback called iff the
\* filter returns a truthy value for the payload, one without a filter for
\* every payload; listeners with the same callback and different filters
\* under one event fire each by its own filter.
C10_FilterDecides ==
    [][\A a \in NotifyArgs :
          Accepted(a)
          => LET e == a[1]
                 d == a[2]
                 listeners == TopicsGet(topics, ANY) \o TopicsGet(topics, e)
                 log == last'.log
             IN  /\ Len(log) = Len(listeners)
                 /\ \A i \in 1..Len(listeners) :
                       LET l == listeners[i] IN
                       /\ log[i].uuid = l.uuid
                       /\ IsDead(l) => ~Fired(log[i])
                       /\ (~IsDead(l) /\ l.details_filter = None)
                             => Fired(log[i])
                       /\ (~IsDead(l) /\ l.details_filter # None)
                             => (Fired(log[i]) <=>
                                   FilterResult(l.details_filter, Payload(d))
                                      = "truthy")]_vars

\* Two listeners of "a" with the same callback and the filters is_red and
\* is_blue: one notification called the one and not the other.
C10_Witness ==
    /\ last.op = "notify"
    /\ last.exc = None
    /\ Len(TopicsGet(topics, ANY)) = 0
    /\ Len(TopicsGet(topics, "a")) = 2
    /\ Len(last.log) = 2
    /\ topics["a"][1].callback = topics["a"][2].callback
    /\ topics["a"][1].details_filter = "is_red"
    /\ topics["a"][2].details_filter = "is_blue"
    /\ last.log[1].outcome = "filtered"
    /\ last.log[2].outcome = "called"

\* The calls that hold the lock are between acquiring and releasing it.
InSection(t) ==
    frames[t].pc \in {"reg_check", "reg_setdefault", "reg_append",
                      "dereg_get", "dereg_scan"}

\* The step is thread t reading or changing the registry in register,
\* deregister, deregister_by_uuid, deregister_event or reset.
RegistryStep(t) ==
    \/ register_check(t)
    \/ register_setdefault(t)
    \/ register_append(t)
    \/ deregister_get(t)
    \/ deregister_scan(t)
    \/ \E e \in RegEvents : deregister_event_pop(t, e)
    \/ reset_clear(t)

\* C6: register, deregister, deregister_by_uuid, deregister_event and reset
\* hold the notifier's lock while they read or change the registry: no thread
\* reads or changes the registry in one of them while another thread is
\* inside the registry section of one of them.
C6_MutualExclusion ==
    [][\A t \in Threads :
          RegistryStep(t) => \A u \in Threads \ {t} : ~InSection(u)]_vars

\* C7: the dispatch list notify built is the wildcard sequence followed by
\* the event's sequence of one registry state that existed between the call
\* of notify and the start of the dispatch.
C7_SingleRegistryState ==
    \A t \in Threads :
        (frames[t].pc = "dispatch" /\ hist[t].seen # {})
        => frames[t].listeners \in hist[t].seen

\* The dispatch in progress on thread t: the frame of _do_dispatch, which is
\* below the frame of a call that a callback made.
Dispatching(t) == frames[t].pc = "dispatch" \/ frames[t].stack # <<>>

DispatchFrame(t) ==
    IF frames[t].pc = "dispatch" THEN frames[t] ELSE frames[t].stack[1]

\* C8: whatever is registered or deregistered during a dispatch, by another
\* thread or by a callback, the notification invokes the listeners of the list
\* notify built, in the order of that list, and no others.
C8_InFlightUnchanged ==
    \A t \in Threads :
        Dispatching(t)
        => LET fr == DispatchFrame(t)
               snapshot == hist[t].snapshot
           IN  /\ Len(fr.log) <= Len(snapshot)
               /\ \A k \in 1..Len(fr.log) : fr.log[k].uuid = snapshot[k].uuid
               /\ (frames[t].pc = "dispatch"
                     /\ frames[t].i > Len(DispatchListeners(t)))
                  => Len(fr.log) = Len(snapshot)

\* A dispatch whose list is the one listener reg_me: the callback registered
\* a second listener for the event of the notification, another thread is in
\* deregister_event and has removed the wildcard listeners, and the dispatch
\* has invoked the listener of its list only.
C8_Witness ==
    /\ frames["t1"].pc = "dispatch"
    /\ frames["t2"].pc = "event_len"
    /\ Len(hist["t1"].snapshot) = 1
    /\ hist["t1"].snapshot[1].callback = "reg_me"
    /\ Len(frames["t1"].log) = 1
    /\ frames["t1"].log[1].outcome = "called"
    /\ TopicsGet(topics, ANY) = <<>>
    /\ Len(TopicsGet(topics, frames["t1"].event)) = 1
    /\ topics[frames["t1"].event][1].uuid = 2

\* ---------------------------------------------------------- SpecRegister

\* The notifiers constructed: Notifier(), RestrictedNotifier(['a', 'b']),
\* RestrictedNotifier(['a', 'b'], allow_any=False) and a restricted
\* notifier whose watchable events name the ANY event itself.
Configs ==
    {UnrestrictedNotifier,
     RestrictedNotifier({"a", "b"}, TRUE),
     RestrictedNotifier({"a", "b"}, FALSE),
     RestrictedNotifier({ANY, "a"}, FALSE)}

\* The arguments handed to register: <<event_type, callback, kwargs,
\* details_filter>>, weak keeps its default.
RegisterArgs ==
    ({ANY, "a", "c"} \X {"call_me"} \X {PyNone}
         \X {None, "is_red", "is_blue"})
    \cup ({"a", "c"} \X {"call_me", "2"}
         \X {PyNone, Dict({<<"details", "5">>})} \X {None, "2"})
    \cup {<<"a", None, PyNone, None>>}

InitRegister ==
    /\ topics = <<>>
    /\ uuids = 0
    /\ alive = Callbacks
    /\ last = NoCall
    /\ lock = None
    /\ frames = <<>>
    /\ heap = <<>>
    /\ hist = <<>>
    /\ config \in Configs
    /\ scope = NoScope
    /\ notifiers = <<>>
    /\ objects = <<>>

NextRegister ==
    \/ \E a \in RegisterArgs : register_kwargs(a[1], a[2], a[3], a[4], FALSE)
    \/ \E e \in {ANY, "a"} : deregister_event(e)
    \/ reset

SpecRegister == InitRegister /\ [][NextRegister]_vars

\* --------------------------------------- notifications of a restricted one
\* Registrations and notifications on a Notifier and on RestrictedNotifiers.

\* The registrations callers make, as <<event_type, callback,
\* details_filter, weak>>.
RestrictedRegArgs ==
    {<<ANY, "call_me", None, FALSE>>,
     <<ANY, "a.call_me_too", None, FALSE>>,
     <<"a", "call_me", None, FALSE>>,
     <<"a", "a.call_me_too", "is_blue", FALSE>>,
     <<"c", "call_me", None, FALSE>>}

\* The notifications callers send, as <<event_type, details>>.
RestrictedNotifyArgs ==
    {<<"a", Dict({})>>, <<"a", Dict({<<"color", "blue">>})>>,
     <<"b", PyNone>>,
     <<"c", Dict({})>>, <<"c", Dict({<<"color", "blue">>})>>,
     <<ANY, Dict({})>>}

NextRestricted ==
    \/ \E a \in RestrictedRegArgs : register(a[1], a[2], a[3], a[4])
    \/ \E a \in RestrictedNotifyArgs : notify(a[1], a[2])
    \/ \E e \in {ANY, "a"} : deregister_event(e)

SpecRestricted == InitRegister /\ [][NextRestricted]_vars

\* ------------------------------------------------------------ SpecScoped

\* The arguments of `with register_deregister(notifier, event_type,
\* callback, details_filter=details_filter, weak=weak)`.
ScopeArgs ==
    {<<"a", "call_me", None, FALSE>>,
     <<"a", "call_me", "is_red", FALSE>>,
     <<ANY, "call_me", None, FALSE>>,
     <<"a", "a.call_me_too", None, TRUE>>,
     <<"a", None, None, FALSE>>,
     <<"a", "2", None, FALSE>>,
     <<"c", "call_me", None, FALSE>>}

\* The arguments of the register calls made outside the with statement.
OutsideArgs ==
    {<<"a", "call_me", None>>, <<"a", "call_me", "is_blue">>,
     <<ANY, "a.call_me_too", None>>, <<"a", None, None>>}

\* The notify calls the body of the with statement makes.
BlockArgs == {<<"a", Dict({<<"color", "red">>})>>, <<"b", Dict({})>>}

InitScoped ==
    /\ topics = <<>>
    /\ uuids = 0
    /\ alive = Callbacks
    /\ last = NoCall
    /\ lock = None
    /\ frames = <<>>
    /\ heap = <<>>
    /\ hist = <<>>
    /\ config \in {UnrestrictedNotifier, RestrictedNotifier({"a", "b"}, TRUE)}
    /\ scope = NoScope
    /\ notifiers = <<>>
    /\ objects = <<>>

\* register_deregister, line 544: `if callback is None`.
ScopeRegisters_always(callback) == TRUE

ScopeRegisters(callback) == callback # None

ScopeDeregisterFilter_default(sc) == None

\* register_deregister, lines 554-555: the details_filter handed to
\* deregister in the finally clause.
ScopeDeregisterFilter(sc) == sc.filter

\* register_deregister up to its yield: the with statement is entered. A
\* register that raises ends the with statement before its body runs.
scope_enter(event_type, callback, details_filter, weak) ==
    /\ scope.pc # "block"
    /\ IF ~ScopeRegisters(callback)
       THEN /\ scope' = [pc |-> "block", event |-> event_type,
                         callback |-> callback, filter |-> details_filter,
                         before |-> NotifierLen(topics), error |-> FALSE]
            /\ UNCHANGED <<topics, uuids, alive, last, lock, frames, heap,
                           hist>>
       ELSE /\ DoRegister(event_type, callback, PyNone, details_filter, weak)
            /\ scope' = [pc |-> IF last'.exc = None THEN "block"
                                ELSE "refused",
                         event |-> event_type,
                         callback |-> callback, filter |-> details_filter,
                         before |-> NotifierLen(topics), error |-> FALSE]
    /\ UNCHANGED <<config, notifiers, objects>>

\* The body of the with statement notifies.
scope_block(event_type, details) ==
    /\ scope.pc = "block"
    /\ notify(event_type, details)

\* register_deregister after its yield: the body returned (error = FALSE)
\* or raised (error = TRUE); the finally clause deregisters and the error,
\* if any, goes on to the caller.
scope_exit(error) ==
    /\ scope.pc = "block"
    /\ IF ~ScopeRegisters(scope.callback)
       THEN UNCHANGED <<topics, uuids, alive, last, lock, frames, heap, hist>>
       ELSE DoDeregister(scope.event, scope.callback,
                         ScopeDeregisterFilter(scope))
    /\ scope' = [scope EXCEPT !.pc = "exited", !.error = error]
    /\ UNCHANGED <<config, notifiers, objects>>

\* A register call made while no with statement is open.
outside_register(event_type, callback, details_filter) ==
    /\ scope.pc # "block"
    /\ register(event_type, callback, details_filter, FALSE)

NextScoped ==
    \/ \E a \in OutsideArgs : outside_register(a[1], a[2], a[3])
    \/ \E a \in ScopeArgs : scope_enter(a[1], a[2], a[3], a[4])
    \/ \E a \in BlockArgs : scope_block(a[1], a[2])
    \/ \E error \in BOOLEAN : scope_exit(error)

SpecScoped == InitScoped /\ [][NextScoped]_vars

\* ------------------------------------------------------------- SpecClone
\* Two notifier objects, the original "n" and the one made from it, "c",
\* with the objects they refer to: notifiers[r] holds the ids of r's _topics
\* dict and of r's _lock, objects holds the dicts (event type to list id),
\* the lists (sequences of Listener objects) and the locks (held or not).

Original == "n"
Clone == "c"

\* The other of the two notifiers.
Other(r) == IF r = Original THEN Clone ELSE Original

\* The arguments of the register calls: <<event_type, callback, weak>>.
CloneRegArgs ==
    {<<ANY, "call_me", FALSE>>, <<"a", "call_me", FALSE>>,
     <<"a", "a.call_me_too", TRUE>>}

\* The arguments of the deregister calls: <<event_type, callback>>.
CloneDeregArgs == {<<ANY, "call_me">>, <<"a", "call_me">>}

CloneEvents == {ANY, "a"}

\* A notifier object: its attributes _topics and _lock, and what
\* RestrictedNotifier adds (_watchable_events, _allow_any).
NotifierObject(topics_id, lock_id, cfg, made) ==
    [topics |-> topics_id, lock |-> lock_id, config |-> cfg, made |-> made]

InitClone ==
    /\ topics = <<>>
    /\ uuids = 0
    /\ alive = Callbacks
    /\ last = NoCall
    /\ lock = None
    /\ frames = <<>>
    /\ heap = <<>>
    /\ hist = <<>>
    /\ config = UnrestrictedNotifier
    /\ scope = NoScope
    /\ \E cfg \in {UnrestrictedNotifier, RestrictedNotifier({"a", "b"}, TRUE)} :
          notifiers = (Original :> NotifierObject(1, 1, cfg, "init"))
    /\ objects = [dicts |-> (1 :> <<>>), lists |-> <<>>,
                  locks |-> (1 :> FALSE)]

\* self._topics of notifier r, as the mapping from event type to the
\* sequence of listeners.
TopicsOf(ns, objs, r) ==
    [e \in DOMAIN objs.dicts[ns[r].topics] |->
        objs.lists[objs.dicts[ns[r].topics][e]]]

\* Objects nothing refers to are garbage.
Live(ns, objs) ==
    LET ds == {ns[r].topics : r \in DOMAIN ns}
        ls == UNION {{objs.dicts[d][e] : e \in DOMAIN objs.dicts[d]} : d \in ds}
        ks == {ns[r].lock : r \in DOMAIN ns}
    IN  [dicts |-> [d \in ds |-> objs.dicts[d]],
         lists |-> [l \in ls |-> objs.lists[l]],
         locks |-> [k \in ks |-> objs.locks[k]]]

\* The steps of SpecClone leave the variables of the other specifications
\* alone.
CloneFrame == UNCHANGED <<topics, alive, lock, frames, heap, hist, config,
                          scope>>

\* A Listener object: the Listener and the identity of the object.
ListenerObject(l, oid) ==
    [uuid |-> l.uuid, callback |-> l.callback,
     details_filter |-> l.details_filter, weak |-> l.weak,
     args |-> l.args, kwargs |-> l.kwargs, oid |-> oid]

\* Ids for one new list per event type of dict d, none of them in use.
FreshLists(objs, d) ==
    LET used == DOMAIN objs.lists \cup {0}
        top == CHOOSE x \in used : \A y \in used : y <= x
    IN  [e \in DOMAIN objs.dicts[d] |-> top + (IF e = ANY THEN 1 ELSE 2)]

CopiedLists_shared(objs, d) == objs.dicts[d]

\* Notifier.copy, lines 441-447: c._topics[event_type] = list(listeners),
\* a new list for every event type.
CopiedLists(objs, d) == FreshLists(objs, d)

\* The lists of objs and, for every new id of `new`, a list holding what
\* the list of the same event type in dict d holds: the same Listener
\* objects (shift = 0) or copies of them, objects of their own (shift > 0).
WithLists(objs, d, new, shift) ==
    LET ids == {new[e] : e \in DOMAIN new}
    IN  [l \in DOMAIN objs.lists \cup ids |->
            IF l \in DOMAIN objs.lists THEN objs.lists[l]
            ELSE LET e == CHOOSE x \in DOMAIN new : new[x] = l
                     src == objs.lists[objs.dicts[d][e]]
                 IN  [i \in 1..Len(src) |->
                         ListenerObject(src[i], src[i].oid + shift)]]

\* Notifier.register on notifier r
clone_register(r, event_type, callback, weak) ==
    /\ r \in DOMAIN notifiers
    /\ callback \in alive
    /\ ~objects.locks[notifiers[r].lock]
    /\ LET d == notifiers[r].topics
           tp == TopicsOf(notifiers, objects, r)
       IN  IF ~CanBeRegisteredOn(notifiers[r].config, event_type)
           THEN /\ last' = RaisedError("register", "ValueError")
                /\ UNCHANGED <<uuids, objects>>
           ELSE IF is_registered(tp, alive, event_type, callback, None)
           THEN /\ last' = RaisedError("register", "ValueError")
                /\ UNCHANGED <<uuids, objects>>
           ELSE /\ uuids < MaxCloneUuid
                /\ LET listener == ListenerObject(
                           Listener(uuids + 1, callback, None, weak),
                           uuids + 1)
                       known == event_type \in DOMAIN objects.dicts[d]
                       lid == IF known THEN objects.dicts[d][event_type]
                              ELSE FreshId(objects.lists)
                       old == IF known THEN objects.lists[lid] ELSE <<>>
                   IN  /\ objects' =
                              [objects EXCEPT
                                 !.dicts[d] = (event_type :> lid) @@ @,
                                 !.lists = (lid :> Append(old, listener)) @@ @]
                       /\ last' = Returned("register", listener)
                /\ uuids' = uuids + 1
    /\ UNCHANGED notifiers
    /\ CloneFrame

\* listeners.pop(i) on the list notifier r holds for the event type
ClonePop(r, event_type, i, op) ==
    IF i # 0
    THEN /\ objects' = [objects EXCEPT
                          !.lists[objects.dicts[notifiers[r].topics][event_type]]
                              = ListPop(@, i)]
         /\ last' = Returned(op, TRUE)
    ELSE /\ last' = Returned(op, FALSE)
         /\ UNCHANGED objects

\* Notifier.deregister on notifier r
clone_deregister(r, event_type, callback) ==
    /\ r \in DOMAIN notifiers
    /\ ~objects.locks[notifiers[r].lock]
    /\ ClonePop(r, event_type,
                FirstEquivalent(
                    TopicsGet(TopicsOf(notifiers, objects, r), event_type),
                    alive, callback, None),
                "deregister")
    /\ UNCHANGED <<uuids, notifiers>>
    /\ CloneFrame

\* Notifier.deregister_by_uuid on notifier r
clone_deregister_by_uuid(r, event_type, uuid) ==
    /\ r \in DOMAIN notifiers
    /\ ~objects.locks[notifiers[r].lock]
    /\ ClonePop(r, event_type,
                FirstUuid(
                    TopicsGet(TopicsOf(notifiers, objects, r), event_type),
                    uuid),
                "deregister_by_uuid")
    /\ UNCHANGED <<uuids, notifiers>>
    /\ CloneFrame

\* Notifier.deregister_event on notifier r
clone_deregister_event(r, event_type) ==
    /\ r \in DOMAIN notifiers
    /\ LET d == notifiers[r].topics
           tp == TopicsOf(notifiers, objects, r)
       IN  /\ objects' = Live(notifiers,
                  [objects EXCEPT !.dicts[d] =
                      [e \in DOMAIN @ \ {event_type} |-> @[e]]])
           /\ last' = Returned("deregister_event",
                               Len(TopicsGet(tp, event_type)))
    /\ UNCHANGED <<uuids, notifiers>>
    /\ CloneFrame

\* Notifier.reset on notifier r
clone_reset(r) ==
    /\ r \in DOMAIN notifiers
    /\ objects' = Live(notifiers,
           [objects EXCEPT !.dicts[notifiers[r].topics] = <<>>])
    /\ last' = Returned("reset", None)
    /\ UNCHANGED <<uuids, notifiers>>
    /\ CloneFrame

\* `with self._lock` of notifier r entered by another thread
lock_acquire(r) ==
    /\ r \in DOMAIN notifiers
    /\ ~objects.locks[notifiers[r].lock]
    /\ objects' = [objects EXCEPT !.locks[notifiers[r].lock] = TRUE]
    /\ UNCHANGED <<uuids, last, notifiers>>
    /\ CloneFrame

\* `with self._lock` of notifier r left by that thread
lock_release(r) ==
    /\ r \in DOMAIN notifiers
    /\ objects.locks[notifiers[r].lock]
    /\ objects' = [objects EXCEPT !.locks[notifiers[r].lock] = FALSE]
    /\ UNCHANGED <<uuids, last, notifiers>>
    /\ CloneFrame

\* Notifier.copy: copy.copy(self) makes the new object from
\* __getstate__/__setstate__, then copy gives it a new dict, a new lock and
\* a new list for every event type; the Listener objects are shared.
clone_copy ==
    /\ Clone \notin DOMAIN notifiers
    /\ LET src == notifiers[Original]
           d == FreshId(objects.dicts)
           k == FreshId(objects.locks)
           new == CopiedLists(objects, src.topics)
       IN  /\ notifiers' = (Clone :> NotifierObject(d, k, src.config, "copy"))
                           @@ notifiers
           /\ objects' = [dicts |-> (d :> new) @@ objects.dicts,
                          lists |-> WithLists(objects, src.topics, new, 0),
                          locks |-> (k :> FALSE) @@ objects.locks]
    /\ last' = Returned("copy", Clone)
    /\ UNCHANGED uuids
    /\ CloneFrame

\* Notifier.__getstate__ and RestrictedNotifier.__getstate__: the dict
\* object itself, the watchable events and allow_any.
getstate(ns, r) == [topics |-> ns[r].topics, config |-> ns[r].config]

SetStateLock_shared(ns, objs) == ns[Original].lock

\* Notifier.__setstate__, line 246: self._lock = threading.Lock()
SetStateLock(ns, objs) == FreshId(objs.locks)

\* The ways a captured state reaches __setstate__: handed over as it is
\* (as copy.copy does), or through pickle.dumps and pickle.loads.
Transports == {"direct", "pickle"}

\* pickle cannot serialise a weak reference.
Picklable(tp) ==
    \A e \in DOMAIN tp : \A i \in 1..Len(tp[e]) : ~tp[e][i].weak

\* __getstate__ of the original, then __setstate__ on a new object.
setstate(transport) ==
    /\ Clone \notin DOMAIN notifiers
    /\ LET state == getstate(notifiers, Original)
           tp == TopicsOf(notifiers, objects, Original)
           new == FreshLists(objects, state.topics)
           d == IF transport = "pickle" THEN FreshId(objects.dicts)
                ELSE state.topics
           k == SetStateLock(notifiers, objects)
       IN  IF transport = "pickle" /\ ~Picklable(tp)
           THEN /\ last' = RaisedError("pickle", "TypeError")
                /\ UNCHANGED <<notifiers, objects>>
           ELSE /\ notifiers' =
                      (Clone :> NotifierObject(d, k, state.config, transport))
                      @@ notifiers
                /\ objects' =
                      [dicts |-> IF transport = "pickle"
                                 THEN (d :> new) @@ objects.dicts
                                 ELSE objects.dicts,
                       lists |-> IF transport = "pickle"
                                 THEN WithLists(objects, state.topics, new,
                                                MaxCloneUuid)
                                 ELSE objects.lists,
                       locks |-> objects.locks @@ (k :> FALSE)]
                /\ last' = Returned("setstate", Clone)
    /\ UNCHANGED uuids
    /\ CloneFrame

NextClone ==
    \/ \E r \in {Original, Clone}, a \in CloneRegArgs :
          clone_register(r, a[1], a[2], a[3])
    \/ \E r \in {Original, Clone}, a \in CloneDeregArgs :
          clone_deregister(r, a[1], a[2])
    \/ \E r \in {Original, Clone}, e \in CloneEvents, u \in 1..MaxCloneUuid :
          clone_deregister_by_uuid(r, e, u)
    \/ \E r \in {Original, Clone}, e \in CloneEvents :
          clone_deregister_event(r, e)
    \/ \E r \in {Original, Clone} : clone_reset(r)
    \/ \E r \in {Original, Clone} : lock_acquire(r)
    \/ \E r \in {Original, Clone} : lock_release(r)
    \/ clone_copy
    \/ \E transport \in Transports : setstate(transport)

SpecClone == InitClone /\ [][NextClone]_vars

\* ----------------------------------------------------------- SpecDetails

\* The arguments of the register calls: <<event_type, callback,
\* details_filter>>.
DetailsRegArgs ==
    {<<ANY, "paint_me", None>>, <<"a", "paint_me", None>>,
     <<ANY, "strip_me", None>>, <<"a", "strip_me", None>>,
     <<"a", "call_me", "is_red">>, <<"a", "call_me", "is_blue">>,
     <<"a", "a.call_me_too", None>>}

\* The arguments of the notify calls.
DetailsNotifyArgs ==
    {"a"} \X {PyNone, Dict({}), Dict({<<"color", "red">>}),
              Dict({<<"color", "blue">>}),
              Dict({<<"color", "red">>, <<"size", "1">>})}

InitDetails ==
    /\ topics = <<>>
    /\ uuids = 0
    /\ alive = Callbacks \cup Mutators
    /\ last = NoCall
    /\ lock = None
    /\ frames = <<>>
    /\ heap = <<>>
    /\ hist = <<>>
    /\ config = UnrestrictedNotifier
    /\ scope = NoScope
    /\ notifiers = <<>>
    /\ objects = <<>>

\* d = details; notifier.notify(event_type, d), with the
\* SynchronousExecutor; the caller then looks at d. `details` of the
\* record is the mapping d holds after the call: `if not details` makes
\* _do_dispatch work on a new dict, not on d.
notify_details(event_type, details) ==
    /\ IF ~can_trigger_notification(event_type)
       THEN last' = RaisedError("notify", "ValueError")
       ELSE LET listeners == DispatchList(topics, event_type)
                d == IF Falsy(details) THEN Dict({}) ELSE details
                res == do_dispatch(listeners, alive, d)
            IN  last' = [op |-> "notify", exc |-> None,
                         ret |-> res.notified, log |-> res.log,
                         details |-> IF Falsy(details) THEN details
                                     ELSE res.details]
    /\ UNCHANGED <<topics, uuids, alive, lock, frames, heap, hist>>
    /\ UNCHANGED ext

NextDetails ==
    \/ \E a \in DetailsRegArgs : register(a[1], a[2], a[3], FALSE)
    \/ \E a \in DetailsNotifyArgs : notify_details(a[1], a[2])
    \/ \E e \in {ANY, "a"} : deregister_event(e)

SpecDetails == InitDetails /\ [][NextDetails]_vars

\* ------------------------------------------------------------------ C11

\* The event may be registered against: any event on a Notifier; on a
\* RestrictedNotifier a watchable event, or ANY when allow_any is set.
Permitted(e) ==
    \/ ~config.restricted
    \/ e \in config.watchable_events
    \/ (e = ANY /\ config.allow_any)

\* The arguments are acceptable: callable callback, no or a callable
\* filter, no reserved key among the kwargs, an event that is permitted.
Acceptable(a) ==
    /\ a[2] \notin {"2", None}
    /\ a[4] # "2"
    /\ "details" \notin {p[1] : p \in a[3].items}
    /\ Permitted(a[1])

\* The step is register(a) being called.
Registers(a) ==
    /\ last'.op = "register"
    /\ register_kwargs(a[1], a[2], a[3], a[4], FALSE)

\* C11: register(E, cb, f) with acceptable arguments succeeds whenever E's
\* own sequence holds no listener equivalent to (cb, f), whatever cb has
\* under other events or under E with another filter (or with none); a
\* register that succeeds appends exactly one listener, for (cb, f), at the
\* end of E's sequence, leaves the other sequences alone and raises
\* len(notifier) by exactly 1.
C11_RegisterAppends ==
    [][\A a \in RegisterArgs :
          Registers(a) =>
          /\ (/\ Acceptable(a)
              /\ EquivalentAt(TopicsGet(topics, a[1]), a[2], a[4]) = {})
             => last'.exc = None
          /\ last'.exc = None =>
             /\ a[1] \in DOMAIN topics'
             /\ Len(topics'[a[1]]) = Len(TopicsGet(topics, a[1])) + 1
             /\ SubSeq(topics'[a[1]], 1, Len(topics'[a[1]]) - 1)
                    = TopicsGet(topics, a[1])
             /\ topics'[a[1]][Len(topics'[a[1]])].callback = a[2]
             /\ topics'[a[1]][Len(topics'[a[1]])].details_filter = a[4]
             /\ topics'[a[1]][Len(topics'[a[1]])] = last'.ret
             /\ \A e \in DOMAIN topics' \ {a[1]} :
                   e \in DOMAIN topics /\ topics'[e] = topics[e]
             /\ NotifierLen(topics') = NotifierLen(topics) + 1]_vars

\* call_me was registered under ANY and twice under "a", once without a
\* filter and once with one; the last call succeeded.
C11_Witness ==
    /\ last.op = "register"
    /\ last.exc = None
    /\ EquivalentAt(TopicsGet(topics, ANY), "call_me", None) # {}
    /\ EquivalentAt(TopicsGet(topics, "a"), "call_me", None) # {}
    /\ \E f \in {"is_red", "is_blue"} :
          EquivalentAt(TopicsGet(topics, "a"), "call_me", f) # {}
    /\ NotifierLen(topics) = 3

\* ------------------------------------------------------------------ C12

\* The listeners a registry holds, one pair per event and position.
Slots(tp) == UNION {{<<e, i>> : i \in 1..Len(tp[e])} : e \in DOMAIN tp}

\* C12: after any sequence of calls len(notifier) is the sum, over every
\* event of the registry, of the length of that event's listener list; it
\* is 0 for a new notifier and 0 right after reset().
C12_LenIsSum ==
    /\ NotifierLen(topics) = Cardinality(Slots(topics))
    /\ last.op \in {"none", "reset"} => NotifierLen(topics) = 0

C12_Witness ==
    /\ Cardinality({e \in DOMAIN topics : Len(topics[e]) > 0}) = 2
    /\ \E e \in DOMAIN topics : Len(topics[e]) = 2
    /\ NotifierLen(topics) = 3

\* ------------------------------------------------------------------ C13

\* C13: on a RestrictedNotifier register(E, cb) succeeds only if E is one of
\* the watchable events, or E is ANY and allow_any is set; for any other E
\* it fails with ValueError and leaves the registry unchanged; and every
\* event that holds a listener is a watchable event or the permitted ANY.
C13_OnlyPermittedEvents ==
    [][config.restricted =>
          /\ \A a \in RegisterArgs :
                Registers(a) =>
                /\ last'.exc = None => Permitted(a[1])
                /\ ~Permitted(a[1]) => /\ last'.exc = "ValueError"
                                       /\ topics' = topics
                                       /\ uuids' = uuids
          /\ \A e \in DOMAIN topics' :
                topics'[e] # <<>> => Permitted(e)]_vars

\* A restricted notifier that allows ANY holds a listener under ANY and one
\* under "a", and has just refused a registration.
C13_Witness ==
    /\ config.restricted
    /\ config.allow_any
    /\ TopicsGet(topics, ANY) # <<>>
    /\ TopicsGet(topics, "a") # <<>>
    /\ last.op = "register"
    /\ last.exc = "ValueError"

\* ------------------------------------------------------------------ C14

\* C14: on a RestrictedNotifier made with allow_any=False, whatever its
\* watchable events, register(ANY, cb) fails with ValueError and no
\* listener is ever stored under ANY.
C14_NoWildcard ==
    [][(config.restricted /\ ~config.allow_any) =>
          /\ \A a \in RegisterArgs :
                (a[1] = ANY /\ Registers(a)) => last'.exc = "ValueError"
          /\ TopicsGet(topics', ANY) = <<>>]_vars

\* ------------------------------------------------------------------ C15

\* (cb, f) is registered under the event.
RegisteredFor(tp, e, cb, f) == EquivalentAt(TopicsGet(tp, e), cb, f) # {}

\* C15: a with statement over register_deregister(E, cb, f), cb not None,
\* acceptable and not yet registered for (E, cb, f): the body is entered
\* with (E, cb, f) registered, it stays registered as long as the body
\* runs, and when the body ends, by returning or by raising, (E, cb, f) is
\* no longer registered, len(notifier) is what it was before entry, and an
\* error of the body still reaches the caller.
C15_ScopedRegistration ==
    [][/\ \A a \in ScopeArgs :
             (/\ a[2] # None
              /\ Acceptable(<<a[1], a[2], PyNone, a[3]>>)
              /\ ~RegisteredFor(topics, a[1], a[2], a[3])
              /\ scope_enter(a[1], a[2], a[3], a[4]))
             => /\ scope'.pc = "block"
                /\ RegisteredFor(topics', a[1], a[2], a[3])
                /\ NotifierLen(topics') = NotifierLen(topics) + 1
       /\ (scope'.pc = "block" /\ scope'.callback # None)
             => RegisteredFor(topics', scope'.event, scope'.callback,
                              scope'.filter)
       /\ \A error \in BOOLEAN :
             (scope.callback # None /\ scope_exit(error))
             => /\ ~RegisteredFor(topics', scope.event, scope.callback,
                                  scope.filter)
                /\ NotifierLen(topics') = scope.before
                /\ scope'.pc = "exited"
                /\ scope'.error = error]_vars

\* The body of a with statement that registered call_me with a filter, on a
\* notifier that held a listener already, raised; the listener is gone.
C15_Witness ==
    /\ scope.pc = "exited"
    /\ scope.error
    /\ scope.callback = "call_me"
    /\ scope.filter = "is_red"
    /\ scope.before >= 1
    /\ NotifierLen(topics) = scope.before
    /\ last.op = "deregister"

\* ------------------------------------------------------------------ C16

\* C16: a with statement over register_deregister(E, None) makes no
\* register and no deregister call: the registry is unchanged on entry,
\* while the body runs and on exit; the body still runs and the with
\* statement ends as the body did. register(E, None) called directly
\* raises ValueError.
C16_NullCallback ==
    [][/\ \A a \in ScopeArgs :
             (a[2] = None /\ scope_enter(a[1], a[2], a[3], a[4]))
             => /\ scope'.pc = "block"
                /\ topics' = topics
                /\ uuids' = uuids
                /\ last' = last
       /\ (scope.pc = "block" /\ scope.callback = None)
             => topics' = topics /\ uuids' = uuids
       /\ \A error \in BOOLEAN :
             (scope.callback = None /\ scope_exit(error))
             => /\ topics' = topics
                /\ last' = last
                /\ scope'.pc = "exited"
                /\ scope'.error = error
       /\ \A a \in OutsideArgs :
             (/\ a[2] = None
              /\ last'.op = "register"
              /\ outside_register(a[1], a[2], a[3]))
             => /\ last'.exc = "ValueError"
                /\ topics' = topics]_vars

\* A with statement without a callback, on a notifier that holds a
\* listener, ran its body (which notified) and ended normally.
C16_Witness ==
    /\ scope.pc = "exited"
    /\ scope.callback = None
    /\ ~scope.error
    /\ NotifierLen(topics) >= 1
    /\ last.op = "notify"

\* ------------------------------------------------------------------ C17

\* The mapping of notifier r before and after the step.
Mapping(r) == TopicsOf(notifiers, objects, r)
MappingAfter(r) == TopicsOf(notifiers', objects', r)

\* Whether the lock of notifier r is held, before and after the step.
Held(r) == objects.locks[notifiers[r].lock]
HeldAfter(r) == objects'.locks[notifiers'[r].lock]

\* Two mappings with the same events and, event by event, listeners with
\* the same uuid, callback and filter in the same order.
SameMapping(tp1, tp2) ==
    /\ DOMAIN tp1 = DOMAIN tp2
    /\ \A e \in DOMAIN tp1 :
          /\ Len(tp1[e]) = Len(tp2[e])
          /\ \A i \in 1..Len(tp1[e]) :
                /\ tp1[e][i].uuid = tp2[e][i].uuid
                /\ ListenerCallback(tp1[e][i], alive)
                       = ListenerCallback(tp2[e][i], alive)
                /\ tp1[e][i].details_filter = tp2[e][i].details_filter

\* The step is made by another thread entering or leaving the lock of r.
Locks(r) == lock_acquire(r) \/ lock_release(r)

\* C17: __getstate__ on a notifier followed by __setstate__ on a new object
\* gives a notifier with the same mapping from event to listeners (same
\* events, same listeners in the same order, same uuid and callback, same
\* len), with a lock that is newly made, not held and not the original's
\* (taking or releasing either lock leaves the other as it is), and, for a
\* RestrictedNotifier, with the same watchable events and allow_any.
C17_RoundTrip ==
    [][/\ \A transport \in Transports :
             (setstate(transport) /\ Clone \in DOMAIN notifiers')
             => /\ SameMapping(MappingAfter(Clone), Mapping(Original))
                /\ NotifierLen(MappingAfter(Clone))
                       = NotifierLen(Mapping(Original))
                /\ MappingAfter(Original) = Mapping(Original)
                /\ notifiers'[Clone].lock \notin DOMAIN objects.locks
                /\ notifiers'[Clone].lock # notifiers'[Original].lock
                /\ ~HeldAfter(Clone)
                /\ HeldAfter(Original) = Held(Original)
                /\ notifiers'[Clone].config = notifiers[Original].config
       /\ (Clone \in DOMAIN notifiers /\ notifiers[Clone].made \in Transports)
             => \A r \in {Original, Clone} :
                   Locks(r) => HeldAfter(Other(r)) = Held(Other(r))]_vars

\* A RestrictedNotifier holding a listener, its lock held by another
\* thread, went through pickle; the notifier made from it holds a listener.
C17_Witness ==
    /\ Clone \in DOMAIN notifiers
    /\ notifiers[Clone].made = "pickle"
    /\ notifiers[Original].config.restricted
    /\ Held(Original)
    /\ NotifierLen(Mapping(Clone)) >= 1
    /\ last.op = "setstate"

\* ------------------------------------------------------------------ C18

\* The step is a register, deregister, deregister_by_uuid, deregister_event
\* or reset on notifier r.
Mutates(r) ==
    \/ /\ last'.op = "register"
       /\ \E a \in CloneRegArgs : clone_register(r, a[1], a[2], a[3])
    \/ /\ last'.op = "deregister"
       /\ \E a \in CloneDeregArgs : clone_deregister(r, a[1], a[2])
    \/ /\ last'.op = "deregister_by_uuid"
       /\ \E e \in CloneEvents, u \in 1..MaxCloneUuid :
             clone_deregister_by_uuid(r, e, u)
    \/ /\ last'.op = "deregister_event"
       /\ \E e \in CloneEvents : clone_deregister_event(r, e)
    \/ /\ last'.op = "reset"
       /\ clone_reset(r)

\* C18: copy() gives a new notifier whose mapping is the original's at that
\* time, the same Listener objects in the same order, in a dict, in lists
\* and with a lock of its own (not held); afterwards a register,
\* deregister, deregister_by_uuid, deregister_event or reset on the copy
\* leaves the listener sequences of the original as they are, and one on
\* the original leaves those of the copy as they are: a step after which
\* the sequences of one notifier differ is no such call on the other.
C18_CopyIndependent ==
    [][/\ clone_copy
             => /\ MappingAfter(Clone) = Mapping(Original)
                /\ MappingAfter(Original) = Mapping(Original)
                /\ notifiers'[Clone].topics # notifiers'[Original].topics
                /\ notifiers'[Clone].lock # notifiers'[Original].lock
                /\ ~HeldAfter(Clone)
                /\ HeldAfter(Original) = Held(Original)
       /\ (Clone \in DOMAIN notifiers /\ notifiers[Clone].made = "copy")
             => \A r \in {Original, Clone} :
                   /\ MappingAfter(Other(r)) # Mapping(Other(r))
                         => ~Mutates(r)
                   /\ Locks(r) => HeldAfter(Other(r)) = Held(Other(r))]_vars

\* A copy was taken of a notifier that held two listeners under one event;
\* one of them was then removed from the original.
C18_Witness ==
    /\ Clone \in DOMAIN notifiers
    /\ notifiers[Clone].made = "copy"
    /\ \E e \in DOMAIN Mapping(Clone) : Len(Mapping(Clone)[e]) = 2
    /\ NotifierLen(Mapping(Original)) = 1
    /\ last.op \in {"deregister", "deregister_by_uuid"}

\* ------------------------------------------------------------------ C20

\* C20: within one notify every listener is invoked with a copy of its own
\* of the details: what a listener adds to, removes from or replaces in the
\* mapping it was handed is not seen by the listeners invoked after it,
\* each of which does what it does on the payload as notify got it, and the
\* mapping the caller passed is the same after the call.
C20_PrivateDetails ==
    [][\A a \in DetailsNotifyArgs :
          (last'.op = "notify" /\ notify_details(a[1], a[2]))
          => LET listeners == TopicsGet(topics, ANY)
                                  \o TopicsGet(topics, a[1])
             IN  /\ Len(last'.log) = Len(listeners)
                 /\ \A i \in 1..Len(listeners) :
                       /\ last'.log[i].uuid = listeners[i].uuid
                       /\ Fired(last'.log[i])
                             <=> FilterSays(listeners[i], Payload(a[2]))
                                     = "truthy"
                       /\ Failed(last'.log[i])
                             <=> Raises(listeners[i], Payload(a[2]))
                 /\ last'.details = a[2]]_vars

\* After paint_me and strip_me, which change the mapping they are handed,
\* a listener with a filter on the colour was called: it saw the colour the
\* caller passed.
C20_Witness ==
    /\ last.op = "notify"
    /\ last.exc = None
    /\ Len(last.log) = 3
    /\ Len(TopicsGet(topics, ANY)) = 1
    /\ Len(TopicsGet(topics, "a")) = 2
    /\ topics[ANY][1].callback = "paint_me"
    /\ topics["a"][1].callback = "strip_me"
    /\ topics["a"][2].details_filter = "is_red"
    /\ last.log[3].outcome = "called"
    /\ last.details = Dict({<<"color", "red">>, <<"size", "1">>})

\* ------------------------------------------------------------------ C19

\* C19: register turns bad arguments away before it touches the registry: a
\* callback that is not callable, a filter that is given and not callable,
\* or an event can_be_registered refuses raise ValueError; kwargs holding
\* the reserved key 'details' raise KeyError; in each case no listener is
\* made and the registry is unchanged.
C19_BadArguments ==
    [][\A a \in RegisterArgs :
          Registers(a) =>
          /\ (\/ a[2] \in {"2", None}
              \/ a[4] = "2"
              \/ ~Permitted(a[1])) => last'.exc = "ValueError"
          /\ (/\ a[2] \notin {"2", None}
              /\ a[4] # "2"
              /\ Permitted(a[1])
              /\ "details" \in {p[1] : p \in a[3].items})
             => last'.exc = "KeyError"
          /\ ~Acceptable(a) => /\ last'.exc # None
                               /\ topics' = topics
                               /\ uuids' = uuids]_vars

\* A notifier that holds a listener has just raised KeyError for kwargs
\* holding 'details'.
C19_Witness ==
    /\ last.op = "register"
    /\ last.exc = "KeyError"
    /\ NotifierLen(topics) >= 1

\* ------------------------------------------------------------------ C22

\* C22: deregister_event(E) takes E's whole sequence out of the registry
\* and returns the number of listeners it held, 0 and no error when E had
\* none; after it a notify(E, ...) would dispatch to the listeners of ANY
\* only, len(notifier) is smaller by the number returned, and the sequence
\* of every other event is what it was.
C22_DeregisterEvent ==
    [][\A e \in Events :
          (last'.op = "deregister_event" /\ deregister_event(e))
          => /\ last'.exc = None
             /\ last'.ret = Len(TopicsGet(topics, e))
             /\ e \notin DOMAIN topics'
             /\ NotifierLen(topics') = NotifierLen(topics) - last'.ret
             /\ \A other \in (DOMAIN topics \cup DOMAIN topics') \ {e} :
                   /\ other \in DOMAIN topics'
                   /\ TopicsGet(topics', other) = TopicsGet(topics, other)
             /\ e # ANY => DispatchList(topics', e) = TopicsGet(topics, ANY)]_vars

\* deregister_event removed two listeners of one event while another event
\* kept its listener.
C22_Witness ==
    /\ last.op = "deregister_event"
    /\ last.ret = 2
    /\ NotifierLen(topics) = 1

\* ------------------------------------------------------------------ C29

\* The positions of the listeners with unique id u in a listener sequence.
UuidAt(listeners, u) == {i \in 1..Len(listeners) : listeners[i].uuid = u}

\* The sequence without the item at position i.
Without(listeners, i) ==
    [j \in 1..(Len(listeners) - 1) |->
        IF j < i THEN listeners[j] ELSE listeners[j + 1]]

\* C29: deregister_by_uuid(E, u) removes from E's sequence exactly the
\* listener whose id is u and returns true, every other listener and event
\* staying as it was; it returns false and changes nothing when no listener
\* of E has id u, a listener with id u under another event included; and no
\* two listeners of a notifier have the same id.
C29_DeregisterByUuid ==
    [][/\ \A e \in RegEvents, u \in 1..MaxUuid :
             (last'.op = "deregister_by_uuid" /\ deregister_by_uuid(e, u))
             => LET at == UuidAt(TopicsGet(topics, e), u) IN
                /\ last'.exc = None
                /\ at # {} =>
                      /\ last'.ret = TRUE
                      /\ \E i \in at :
                            topics'[e] = Without(topics[e], i)
                      /\ \A other \in DOMAIN topics \ {e} :
                            /\ other \in DOMAIN topics'
                            /\ topics'[other] = topics[other]
                /\ at = {} => /\ last'.ret = FALSE
                              /\ topics' = topics
       /\ topics' # topics =>
             \A s1, s2 \in Slots(topics') :
                topics'[s1[1]][s1[2]].uuid = topics'[s2[1]][s2[2]].uuid
                => s1 = s2]_vars

\* deregister_by_uuid removed a listener from an event that keeps another
\* one, while a second event holds a listener too.
C29_Witness ==
    /\ last.op = "deregister_by_uuid"
    /\ last.ret = TRUE
    /\ \A e \in RegEvents : Len(TopicsGet(topics, e)) = 1
    /\ uuids = 3

\* A notification of thread t is in flight: notify accepted the call and the
\* future's result is not yet set.
InFlight(t) ==
    frames[t].op = "notify"
        /\ frames[t].pc \in {"notify_any", "notify_extend", "dispatch"}

\* Every listener of the list notify built was considered once, in the
\* order of the list, and the result counts them.
Considered(fr) ==
    /\ Len(fr.log) = Len(fr.listeners)
    /\ \A i \in 1..Len(fr.listeners) : fr.log[i].uuid = fr.listeners[i].uuid
    /\ LET failures == Cardinality({i \in 1..Len(fr.log) : Failed(fr.log[i])})
       IN  Notified(fr) = <<Len(fr.listeners), Len(fr.listeners) - failures,
                            failures>>

\* C21: every accepted notify call runs to completion. With listeners that
\* return or raise, whatever the other thread registers or removes, the
\* dispatch comes to the end of the list notify built with every listener
\* considered exactly once, and only then is the result of the future set,
\* which with the synchronous executor is before notify returns.
C21_RunsToCompletion ==
    /\ \A t \in NotifyThreads :
          InFlight(t) ~> (/\ frames[t].pc = "dispatch"
                          /\ frames[t].i = Len(frames[t].listeners) + 1
                          /\ Considered(frames[t]))
    /\ [][\A t \in NotifyThreads :
             (frames[t].pc = "dispatch" /\ dispatch_return(t))
             => Considered(frames[t])]_vars

\* A dispatch came to the end of a list of two listeners, the first called
\* and the second raising, while the other thread is inside deregister_event.
C21_Witness ==
    /\ frames["t1"].pc = "dispatch"
    /\ LoopOver("t1")
    /\ Len(frames["t1"].log) = 2
    /\ frames["t1"].log[1].outcome = "called"
    /\ frames["t1"].log[2].outcome = "cb_raised"
    /\ frames["t2"].pc = "event_len"

\* Thread t is in a register, deregister or deregister_by_uuid call that
\* waits for the lock or holds it.
LockedCall(t) == frames[t].pc \in {"reg_lock", "dereg_lock"} \/ InSection(t)

\* C27: notify holds no lock while callbacks run. The lock is only ever held
\* by a thread that is inside the locked block of register, deregister or
\* deregister_by_uuid, never by a frame that dispatches or waits, so a call
\* that needs the lock, made by another thread during a dispatch that may
\* never end or by a callback of the dispatch itself, gets it and returns.
C27_NoDeadlock ==
    /\ [](\A t \in Threads : lock = t => InSection(t))
    /\ \A t \in Threads : LockedCall(t) ~> ~LockedCall(t)

\* A callback of the dispatch on thread t1 called register, which holds the
\* lock, while thread t2 waits for the lock in deregister.
C27_Witness ==
    /\ frames["t1"].stack # <<>>
    /\ frames["t1"].stack[1].pc = "dispatch"
    /\ frames["t1"].pc = "reg_setdefault"
    /\ lock = "t1"
    /\ frames["t2"].pc = "dereg_lock"

\* Two different positions of a listener sequence hold listeners with the
\* same live callback and the same details filter.
Duplicated(listeners) ==
    \E i, j \in 1..Len(listeners) :
       /\ i < j
       /\ ~IsDead(listeners[i])
       /\ ~IsDead(listeners[j])
       /\ listeners[i].callback = listeners[j].callback
       /\ listeners[i].details_filter = listeners[j].details_filter

\* C25: whatever the interleaving of the threads' register, deregister and
\* deregister_by_uuid calls (and of everything else they call), no event's
\* sequence holds two listeners with the same live callback and the same
\* details filter: of two threads registering the same (event, callback,
\* filter) at once, at most one appends.
C25_Unique == \A e \in DOMAIN topics : ~Duplicated(topics[e])

\* Thread t2 waits for the lock in register("a", call_me) while thread t1,
\* registering the same, is inside the locked block, past the check.
C25_Witness ==
    /\ frames["t1"].pc = "reg_append"
    /\ frames["t1"].op = "register"
    /\ frames["t2"].pc = "reg_lock"
    /\ frames["t1"].event = "a" /\ frames["t2"].event = "a"
    /\ frames["t1"].callback = "call_me" /\ frames["t2"].callback = "call_me"
    /\ frames["t1"].details_filter = frames["t2"].details_filter

\* C26: no successful registration is lost to a concurrent removal. The
\* listener register returns is appended to a sequence the registry holds,
\* or to one that a deregister_event still in progress has removed and has
\* yet to count.
C26_NoLostRegistration ==
    [][\A t \in Threads :
          (frames[t].pc = "reg_append" /\ register_append(t))
          => \/ frames[t].ref_kind = "topic"
             \/ \E u \in Threads \ {t} :
                   /\ frames[u].pc = "event_len"
                   /\ frames[u].ref_kind = "heap"
                   /\ frames[u].ref_id = frames[t].ref_id]_vars

\* The step is an accepted notify that skips every dead listener of its
\* dispatch list: nothing is called for it and nothing raises.
SkipsDead ==
    \A a \in NotifyArgs :
       Accepted(a)
       => LET listeners == TopicsGet(topics, ANY) \o TopicsGet(topics, a[1])
          IN  /\ last'.exc = None
              /\ Len(last'.log) = Len(listeners)
              /\ \A i \in 1..Len(listeners) :
                    IsDead(listeners[i])
                    => /\ last'.log[i].uuid = listeners[i].uuid
                       /\ last'.log[i].outcome = "dead"
                       /\ ~Fired(last'.log[i])
                       /\ ~Failed(last'.log[i])

\* A notify step, accepted or rejected, leaves the registry as it was.
NotifyKeepsRegistry ==
    (\/ topics' # topics
     \/ NotifierLen(topics') # NotifierLen(topics))
    => ~\E a \in NotifyArgs : notify(a[1], a[2])

\* A dead listener that is in the registry before the step and not after it
\* was removed by one of the operations ops.
DeadRemovedOnlyBy(ops) ==
    \A e \in DOMAIN topics : \A i \in 1..Len(topics[e]) :
       (/\ IsDead(topics[e][i])
        /\ UuidAt(TopicsGet(topics', e), topics[e][i].uuid) = {})
       => last'.op \in ops

\* C24 as stated: notify skips a dead listener and never removes it or
\* changes the registry; the dead listener stays in its event's sequence
\* until deregister_by_uuid, deregister_event or reset removes it.
C24_DeadStaysUntilThree ==
    [][/\ last'.op = "notify" => SkipsDead /\ NotifyKeepsRegistry
       /\ topics' # topics =>
             DeadRemovedOnlyBy({"deregister_by_uuid", "deregister_event",
                                "reset"})]_vars

\* C24, amended: notify skips a dead listener and never removes it or changes
\* the registry; the dead listener stays in its event's sequence until
\* deregister_by_uuid, deregister_event, reset, or a deregister called with
\* None for the callback removes it.
C24_DeadStays ==
    [][/\ last'.op = "notify" => SkipsDead /\ NotifyKeepsRegistry
       /\ topics' # topics =>
             DeadRemovedOnlyBy({"deregister_by_uuid", "deregister_event",
                                "reset", "deregister"})
       /\ (last'.op = "deregister" /\ topics' # topics) =>
             \A a \in DeregArgs :
                (a[2] # None /\ deregister(a[1], a[2], a[3]))
                => \A i \in 1..Len(TopicsGet(topics, a[1])) :
                      IsDead(topics[a[1]][i])
                      => UuidAt(TopicsGet(topics', a[1]),
                                topics[a[1]][i].uuid) # {}]_vars

\* Two notifications in a row skipped the dead listener of "a", which is
\* still the first of the two listeners of "a".
C24_Witness ==
    /\ last.op = "notify"
    /\ last.exc = None
    /\ Len(TopicsGet(topics, "a")) = 2
    /\ IsDead(topics["a"][1])
    /\ ~IsDead(topics["a"][2])
    /\ Len(last.log) >= 2
    /\ \E i \in 1..Len(last.log) :
          /\ last.log[i].uuid = topics["a"][1].uuid
          /\ last.log[i].outcome = "dead"
    /\ NotifierLen(topics) >= 2

\* The first of a non-empty set of positions.
First(at) == CHOOSE i \in at : \A j \in at : i <= j

\* C23: equivalence looks at the resolved callback and the details filter
\* only. A register for an event that holds a listener with the same callback
\* and filter is rejected as a duplicate whatever args, kwargs and weak flag
\* the call and the listener carry, and deregister(E, cb, f) removes that
\* listener whatever args, kwargs and uuid it carries.
C23_EquivalenceIgnoresArgs ==
    [][/\ \A a \in EquivRegArgs :
             (/\ last'.op = "register"
              /\ register_args(a[1], a[2], a[3], a[4], a[5], a[6])
              /\ EquivalentAt(TopicsGet(topics, a[1]), a[2], a[5]) # {})
             => /\ last'.exc = "ValueError"
                /\ topics' = topics
       /\ \A d \in EquivDeregArgs :
             LET at == EquivalentAt(TopicsGet(topics, d[1]), d[2], d[3]) IN
             (/\ last'.op = "deregister"
              /\ deregister(d[1], d[2], d[3])
              /\ at # {})
             => /\ last'.ret = TRUE
                /\ topics'[d[1]] = Without(topics[d[1]], First(at))]_vars

\* A registration of call_me for "a" that differs from the listener in place
\* was rejected as a duplicate; the listeners of "a" are one with a fixed
\* argument and, with the filter is_red, one with a keyword argument that is
\* held weakly.
C23_Witness ==
    /\ last.op = "register"
    /\ last.exc = "ValueError"
    /\ Len(TopicsGet(topics, "a")) = 2
    /\ \A i \in 1..2 : topics["a"][i].callback = "call_me"
    /\ \E i \in 1..2 : /\ topics["a"][i].args = <<"x">>
                       /\ topics["a"][i].details_filter = None
    /\ \E i \in 1..2 : /\ topics["a"][i].kwargs # {}
                       /\ topics["a"][i].weak
                       /\ topics["a"][i].details_filter = "is_red"

\* What notify(event_type, details) of a base Notifier with the registry tp
\* does: the wildcard is rejected, every other event is dispatched.
NotifyOnBase(tp, al, event_type, details) ==
    IF event_type \in DISALLOWED_NOTIFICATION_EVENTS
    THEN RaisedError("notify", "ValueError")
    ELSE LET res == do_dispatch(TopicsGet(tp, ANY) \o TopicsGet(tp, event_type),
                                al, Payload(details))
         IN  [op |-> "notify", exc |-> None, ret |-> res.notified,
              log |-> res.log]

====
